---- MODULE Spec2Model ----
(***************************************************************************)
(* The retrieval-validate-process pipeline of the shoe image API:          *)
(* ScraperService.getShoeImage / downloadAndValidate, CacheService,        *)
(* ValidatorService and GeminiValidatorService.                            *)
(*                                                                         *)
(* Strings are sequences of one-character strings, so that normalizeKey    *)
(* and generateSeoFilename are computed character by character as the      *)
(* regular expressions of the code compute them.                           *)
(***************************************************************************)
EXTENDS Integers, Sequences, FiniteSets, TLC

\* ------------------------------------------------------------------ bounds
\* Longest candidate list a source hands back in the model.
MaxUrls == 2
\* Longest query normalizeKey is applied to.
MaxKeyLen == 3
\* Number of requests whose searchImage calls overlap.
NumCallers == 3
\* Number of getShoeImage calls that overlap.
NumRequests == 2
\* Largest pageOperationRetries, and most failures in a row of one page
\* operation.
MaxPageRetries == 2
\* Most pixels of an image's left edge that are not white.
MaxDark == 6
\* Most calls of Stagehand.init the model follows.
MaxInitCalls == 3
\* Longest string over the hostile alphabet handed to the filename
\* generators.
MaxNameLen == 2

\* ------------------------------------------------------- program constants
DownloadMaxRetries == 3
DownloadInitialDelayMs == 1000
GeminiMaxRetries == 2
GeminiInitialDelayMs == 1000

\* ----------------------------------------------------------------- strings
LowerLetters ==
  <<"a","b","c","d","e","f","g","h","i","j","k","l","m",
    "n","o","p","q","r","s","t","u","v","w","x","y","z">>
UpperLetters ==
  <<"A","B","C","D","E","F","G","H","I","J","K","L","M",
    "N","O","P","Q","R","S","T","U","V","W","X","Y","Z">>
Digits == {"0","1","2","3","4","5","6","7","8","9"}
WhiteSpace == {" ", "\t", "\n"}

Range(s) == {s[i] : i \in DOMAIN s}

\* String.prototype.toLowerCase, one character.
toLowerChar(c) ==
  IF \E i \in DOMAIN UpperLetters : UpperLetters[i] = c
  THEN LowerLetters[CHOOSE i \in DOMAIN UpperLetters : UpperLetters[i] = c]
  ELSE c

toUpperChar(c) ==
  IF \E i \in DOMAIN LowerLetters : LowerLetters[i] = c
  THEN UpperLetters[CHOOSE i \in DOMAIN LowerLetters : LowerLetters[i] = c]
  ELSE c

toLowerCase(s) == [i \in DOMAIN s |-> toLowerChar(s[i])]
toUpperCase(s) == [i \in DOMAIN s |-> toUpperChar(s[i])]

\* The character classes [a-z0-9], [a-z0-9-] and [A-Z0-9-] of the code.
IsLowerAlnum(c) == c \in Range(LowerLetters) \cup Digits
IsSlugChar(c) == IsLowerAlnum(c) \/ c = "-"
IsStageChar(c) == c \in Range(UpperLetters) \cup Digits \cup {"-"}

\* s.replace(/[^...]/g, ''): drop every character outside the class.
RECURSIVE KeepSlugChars(_)
KeepSlugChars(s) ==
  IF s = <<>> THEN <<>>
  ELSE (IF IsSlugChar(Head(s)) THEN <<Head(s)>> ELSE <<>>) \o KeepSlugChars(Tail(s))

RECURSIVE KeepStageChars(_)
KeepStageChars(s) ==
  IF s = <<>> THEN <<>>
  ELSE (IF IsStageChar(Head(s)) THEN <<Head(s)>> ELSE <<>>) \o KeepStageChars(Tail(s))

\* s.replace(/\s+/g, '-'): every maximal run of white space becomes one '-'.
RECURSIVE ReplaceSpaceRuns(_)
ReplaceSpaceRuns(s) ==
  IF s = <<>> THEN <<>>
  ELSE IF Head(s) \in WhiteSpace
       THEN IF Tail(s) # <<>> /\ Head(Tail(s)) \in WhiteSpace
            THEN ReplaceSpaceRuns(Tail(s))
            ELSE <<"-">> \o ReplaceSpaceRuns(Tail(s))
       ELSE <<Head(s)>> \o ReplaceSpaceRuns(Tail(s))

\* Fixed pieces of text the code concatenates.
ImagesPrefix == <<"/","i","m","a","g","e","s","/">>
JpgSuffix == <<".","j","p","g">>
SideViewSuffix == <<" ","s","i","d","e"," ","v","i","e","w">>
StageRawDownload == <<"r","a","w","-","d","o","w","n","l","o","a","d">>
StageGeminiApprovedRaw ==
  <<"g","e","m","i","n","i","-","a","p","p","r","o","v","e","d","-","r","a","w">>
StageGeminiRejected ==
  <<"g","e","m","i","n","i","-","r","e","j","e","c","t","e","d">>
StageGeminiBypassedInput ==
  <<"g","e","m","i","n","i","-","b","y","p","a","s","s","e","d","-","i","n","p","u","t">>
BypassedBrand ==
  <<"U","n","k","n","o","w","n"," ","(","B","y","p","a","s","s","e","d",")">>

\* Values of optional fields: a path is a string, null or undefined.
Null == <<"<null>">>
Undefined == <<"<undefined>">>
NoError == "<undefined>"

\* ------------------------------------------------------------ CacheService
\* normalizeKey: lower-case, then every single character outside [a-z0-9]
\* becomes '_'.
normalizeKey(model_) ==
  [i \in DOMAIN model_ |->
     IF IsLowerAlnum(toLowerChar(model_[i])) THEN toLowerChar(model_[i]) ELSE "_"]

\* generateSeoFilename without the replace that strips [^a-z0-9-].
generateSeoFilename_NoStrip(geminiResult) ==
  ReplaceSpaceRuns(toLowerCase(
      geminiResult.brand \o <<" ">> \o geminiResult.model \o SideViewSuffix))
  \o JpgSuffix

generateSeoFilename(geminiResult) ==
  KeepSlugChars(ReplaceSpaceRuns(toLowerCase(
      geminiResult.brand \o <<" ">> \o geminiResult.model \o SideViewSuffix)))
  \o JpgSuffix

generateIntermediateFilename(normalizedModelKey, stage) ==
  normalizedModelKey \o <<"-">> \o KeepStageChars(toUpperCase(stage)) \o JpgSuffix

\* A set that drops every other entry of the Map.
MapSet_DropsOthers(m, k, v) == [x \in {k} |-> v]

\* Map.set
MapSet(m, k, v) == [x \in DOMAIN m \cup {k} |-> IF x = k THEN v ELSE m[x]]

\* getCachedImage looking the index up under the raw query (no normalizeKey).
getCachedImage_RawKey(index, dir, model_) ==
  IF model_ \in DOMAIN index /\ index[model_] # <<>> /\ index[model_] \in dir
  THEN ImagesPrefix \o index[model_]
  ELSE Null

\* getCachedImage trusting the index: no fs.existsSync.
getCachedImage_NoExistsCheck(index, dir, model_) ==
  LET key == normalizeKey(model_) IN
  IF key \in DOMAIN index /\ index[key] # <<>>
  THEN ImagesPrefix \o index[key]
  ELSE Null

\* getCachedImage(model) against an index and a directory listing.
getCachedImage(index, dir, model_) ==
  LET key == normalizeKey(model_) IN
  IF key \in DOMAIN index /\ index[key] # <<>> /\ index[key] \in dir
  THEN ImagesPrefix \o index[key]
  ELSE Null

\* -------------------------------------------------- structural validation
\* An image as the validators see it: decoded width, height and channel
\* count (0 when sharp cannot decode them) and the number of sampled border
\* pixels whose R, G and B all exceed 240.
Min(a, b) == IF a < b THEN a ELSE b
borderSize(img) == Min(5, Min(img.width \div 10, img.height \div 10))
totalPixelCount(img) ==
  2 * (img.width * borderSize(img)) + 2 * (borderSize(img) * img.height)

\* ValidatorService.validateImage
ValidatorValidateImage(img) ==
  IF img.width = 0 \/ img.height = 0 \/ img.channels = 0 THEN FALSE
  ELSE IF borderSize(img) <= 0 THEN FALSE
  ELSE img.white * 100 > 95 * totalPixelCount(img)

\* GeminiValidatorService.isBackgroundWhite
isBackgroundWhite(img) ==
  IF img.width = 0 \/ img.height = 0 THEN FALSE
  ELSE IF borderSize(img) <= 0 THEN FALSE
  ELSE img.white * 100 > 95 * totalPixelCount(img)

\* A decoded image pixel by pixel: its size, the number of samples sharp
\* hands out per pixel (1 for greyscale, 2 with alpha, 3 for RGB, 4 with
\* alpha), the pixels that are not white, and the sample of those pixels
\* that is 240; every other sample is 255.
SampleAt(image, x, y, ch) ==
  IF <<x, y>> \in image.dark /\ ch = image.low THEN 240 ELSE 255

\* image.clone().extract(region).raw().toBuffer(): data[i], rows from the
\* top, pixels from the left, the samples of a pixel side by side; a read
\* past the end gives undefined, which no comparison accepts (-1 here).
RawData(image, region, i) ==
  IF i >= region.width * region.height * image.channels THEN -1
  ELSE LET p == i \div image.channels IN
       SampleAt(image, region.left + (p % region.width),
                region.top + (p \div region.width), i % image.channels)

\* The loop over data: i advances by info.channels and reads data[i],
\* data[i + 1] and data[i + 2].
WhiteIn(image, region) ==
  Cardinality({p \in 0..(region.width * region.height - 1) :
                 \A d \in 0..2 :
                   RawData(image, region, p * image.channels + d) > 240})

\* The four regions of validateImage for a border of thickness t.
Regions(image, t) ==
  <<[left |-> 0, top |-> 0, width |-> image.width, height |-> t],
    [left |-> 0, top |-> image.height - t, width |-> image.width, height |-> t],
    [left |-> 0, top |-> 0, width |-> t, height |-> image.height],
    [left |-> image.width - t, top |-> 0, width |-> t, height |-> image.height]>>

\* What the validators see of a decoded image: its metadata and
\* whitePixelCount after the loop over the regions.
Sampled(image) ==
  LET meta == [width |-> image.width, height |-> image.height,
               channels |-> image.channels, white |-> 0]
      t == borderSize(meta)
  IN IF image.width = 0 \/ image.height = 0 \/ image.channels = 0 \/ t <= 0
     THEN meta
     ELSE [meta EXCEPT !.white =
             WhiteIn(image, Regions(image, t)[1]) + WhiteIn(image, Regions(image, t)[2])
             + WhiteIn(image, Regions(image, t)[3]) + WhiteIn(image, Regions(image, t)[4])]

\* The images handed to validateImage: undecodable, too small, and 10 wide
\* with up to MaxDark pixels of the left edge, below the top row, not
\* white.
RawImages ==
  [width : {0, 9, 10}, height : {0, 9, 10, 40}, channels : {0, 1, 3, 4},
   dark : {{<<0, y>> : y \in 1..k} : k \in 0..MaxDark}, low : 0..3]

BlackImage == [width |-> 20, height |-> 20, channels |-> 3, white |-> 0]
WhiteImage == [width |-> 20, height |-> 20, channels |-> 3, white |-> 160]
NoImage == [width |-> 0, height |-> 0, channels |-> 0, white |-> 0]
\* The bodies a download can deliver.
Images == {BlackImage, WhiteImage}

\* ---------------------------------------------------- semantic validation
\* Query strings of requests, and the brand / model strings a response of
\* the vision model can carry.
QuerySpaced == <<"a"," ","b">>
QueryDashed == <<"A","-","b">>
Queries == {QuerySpaced, QueryDashed}
ModelSpaced == <<"A"," ","b">>
ModelJoined == <<"a","b">>
CanonicalModels == {ModelSpaced, ModelJoined}
BrandX == <<"X">>

\* What one call of the vision model can end in: the hard timeout, a
\* rejected promise, a safety-blocked response (response.text() throws),
\* text that JSON.parse refuses, or a JSON object.  The object is whatever
\* the model sent; isShoe is a member the prompt does not ask for, so it is
\* FALSE (absent) in a response that follows the prompt.
GeminiFaultKinds == {"timeout", "error", "blocked", "unparseable"}
NoJson == [usable |-> FALSE, brand |-> <<>>, model |-> <<>>, isShoe |-> FALSE]
GeminiCalls ==
  [kind : GeminiFaultKinds, json : {NoJson}]
  \cup [kind : {"json"},
        json : [usable : {TRUE}, brand : {BrandX}, model : CanonicalModels,
                isShoe : BOOLEAN]]
  \cup [kind : {"json"},
        json : [usable : {FALSE}, brand : {BrandX}, model : {ModelJoined},
                isShoe : {FALSE}]]

\* validateImage whose catch answers a failed call with a permissive verdict.
GeminiValidateImage_FaultPasses(img, shoeModel, call) ==
  IF ~isBackgroundWhite(img) THEN [threw |-> FALSE, value |-> <<>>]
  ELSE IF call.kind # "json"
  THEN [threw |-> FALSE,
        value |-> <<[usable |-> TRUE, brand |-> BrandX, model |-> shoeModel,
                     isShoe |-> TRUE]>>]
  ELSE IF ~call.json.usable THEN [threw |-> FALSE, value |-> <<>>]
  ELSE [threw |-> FALSE, value |-> <<call.json>>]

\* GeminiValidatorService.validateImage: the value it resolves with
\* (<<>> for null, <<json>> for a verdict); threw says whether it rejected.
\* validateImage that hands back the parsed object without testing usable.
GeminiValidateImage_IgnoresUsable(img, shoeModel, call) ==
  IF ~isBackgroundWhite(img) THEN [threw |-> FALSE, value |-> <<>>]
  ELSE IF call.kind # "json" THEN [threw |-> FALSE, value |-> <<>>]
  ELSE [threw |-> FALSE, value |-> <<call.json>>]

\* validateImage without its catch: a blocked or unparseable response
\* rejects the promise.
GeminiValidateImage_MalformedThrows(img, shoeModel, call) ==
  IF ~isBackgroundWhite(img) THEN [threw |-> FALSE, value |-> <<>>]
  ELSE IF call.kind \in {"blocked", "unparseable"} THEN [threw |-> TRUE, value |-> <<>>]
  ELSE IF call.kind # "json" THEN [threw |-> FALSE, value |-> <<>>]
  ELSE IF ~call.json.usable THEN [threw |-> FALSE, value |-> <<>>]
  ELSE [threw |-> FALSE, value |-> <<call.json>>]

GeminiValidateImage(img, shoeModel, call) ==
  IF ~isBackgroundWhite(img) THEN [threw |-> FALSE, value |-> <<>>]
  ELSE IF call.kind # "json" THEN [threw |-> FALSE, value |-> <<>>]  \* catch (err)
  ELSE IF ~call.json.usable THEN [threw |-> FALSE, value |-> <<>>]
  ELSE [threw |-> FALSE, value |-> <<call.json>>]

\* saveIntermediateImage that returns the path although the write failed.
saveIntermediateImage_PathOnFailure(dir, modelInput, stage, writeOk) ==
  LET filename == generateIntermediateFilename(normalizeKey(modelInput), stage) IN
  IF writeOk THEN [path |-> ImagesPrefix \o filename, dir |-> dir \cup {filename}]
  ELSE [path |-> ImagesPrefix \o filename, dir |-> dir]

\* saveIntermediateImage: the path it returns and the directory afterwards;
\* writeOk is whether fs.writeFileSync succeeded.
saveIntermediateImage(dir, modelInput, stage, writeOk) ==
  LET filename == generateIntermediateFilename(normalizeKey(modelInput), stage) IN
  IF writeOk THEN [path |-> ImagesPrefix \o filename, dir |-> dir \cup {filename}]
  ELSE [path |-> Null, dir |-> dir]

\* ------------------------------------------------------------------ state
VARIABLES
  cacheIndex,             \* CacheService.cacheIndex (the Map in memory)
  indexFile,              \* the contents of index.json
  files,                  \* the image files present in the cache directory
  bypassGeminiOnFailure,  \* config.scraperService.bypassGeminiOnFailure
  downloadMaxRetries,     \* ScraperService.downloadMaxRetries
  geminiMaxRetries,       \* config.scraperService.geminiMaxRetries ?? 2
  pc,                     \* where the request in progress stands
  model,                  \* getShoeImage's parameter
  urls,                   \* the candidate list searchImage resolved with
  urlIdx,                 \* position of the for..of loop over urls
  attempt,                \* downloadAndValidate: attempt
  currentDelay,           \* downloadAndValidate: currentDelay
  geminiAttempt,          \* downloadAndValidate: geminiAttempt
  geminiCurrentDelay,     \* downloadAndValidate: geminiCurrentDelay
  imageBuffer,            \* downloadAndValidate: imageBuffer
  actualGeminiResult,     \* downloadAndValidate: actualGeminiResult
  scrapingResult,         \* downloadAndValidate: scrapingResult
  result,                 \* what getShoeImage returned
  calls,                  \* which collaborators this request has called
  cand,                   \* what happened to the candidate being attempted
  indexAtStart,           \* cacheIndex and indexFile when the request began
  debugWritable           \* whether the writes of saveIntermediateImage
                          \* succeed while this request runs

\* The orchestrator over several sources (the ScraperService whose sources
\* are GoogleShoppingSource and SearchEngineSource).
VARIABLES
  msPc,                   \* where its request in progress stands
  msModel,                \* getShoeImage's parameter
  msSrc,                  \* position of the for..of loop over this.sources
  msUrls,                 \* the list the current source resolved with
  msUrlIdx,               \* position of the for..of loop over urls
  msResult,               \* what getShoeImage returned
  msLog                   \* the sources queried by this request, in order,
                          \* each with how searchImage settled

\* CacheService.saveImage statement by statement, a process that can stop
\* between and inside its writes, and the service started afterwards.
VARIABLES
  svPc,                   \* the statement saveImage is about to execute
  svResult,               \* saveImage's geminiResult
  indexTorn,              \* index.json holds a cut-off text, not a JSON value
  svLookup                \* what the last getCachedImage returned

\* CacheService.normalizeKey applied to one query after another.
VARIABLES
  nkQuery,                \* the argument of the call in progress or last made
  nkKey,                  \* what that call returned (Undefined before it does)
  nkPrevQuery,            \* the argument of the call before
  nkPrevKey               \* what the call before returned

\* SearchEngineSource: its static members and the searchImage calls of
\* concurrent requests.
VARIABLES
  stagehand,              \* SearchEngineSource.stagehand is set
  initializing,           \* SearchEngineSource.initializing: "null", or the
                          \* state of the promise it holds
  mutex,                  \* SearchEngineSource.mutex: 0 for a resolved
                          \* promise, c for the pending promise of caller c
  brPc,                   \* where each caller's searchImage stands
  brPrev,                 \* the pending promise each caller awaits in
                          \* withLock (0 once it is resolved)
  brInits,                \* sh.init() calls in flight
  brSessions,             \* Stagehand instances initialised and not closed
  brResult,               \* what each caller's last searchImage returned:
                          \* "imageUrls" (the list of page.evaluate), "[]"
                          \* (the literal of the catch), "none" while it runs
  brTornDown,             \* callers whose running call was awaiting prev
                          \* when resetStagehand completed
  brOrder                 \* the callers whose searchImage has not returned,
                          \* in the order of their calls

\* Concurrent getShoeImage calls on one ScraperService, each seen at its
\* awaits.
VARIABLES
  rcPc,                   \* where each call stands
  rcModel,                \* the model string each call was given
  rcVerdict,              \* actualGeminiResult of the call's candidate
  rcResult,               \* what each call returned
  rcSaves                 \* the saveImage calls so far, in order

\* ValidatorService.validateImage applied to one image after another.
VARIABLES
  vlImage,                \* the decoded imageBuffer
  vlVerdict               \* <<b>> once validateImage has resolved with b

\* ImageProcessorService.makeUnique applied to one image after another.
VARIABLES
  muInput,                \* the decoded size of imageBuffer and the verdict's
                          \* rotate flag
  muOut                   \* <<o>> once makeUnique has resolved: the size of
                          \* processedBuffer and what was applied

\* GoogleShoppingSource and the BrowserFactory singleton: the searchImage
\* calls of concurrent requests on the one source instance.
VARIABLES
  gsPc,                   \* where each caller's searchImage stands
  gsHolder,               \* the caller that holds this.mutex (0: free)
  gsQueue,                \* the callers waiting in mutex.acquire(), in order
  bfInitialized,          \* BrowserFactory.initialized
  bfInitCalls             \* stagehand.init() calls made so far

\* One write of CacheService, with any arguments.
VARIABLES
  fnCall,                 \* the method called: "saveImage" or
                          \* "saveIntermediateImage"
  fnArgs,                 \* its two strings: brand and model of the verdict,
                          \* or modelInput and stage
  fnName                  \* <<filename>> once the file has been written

cacheVars == <<cacheIndex, indexFile, files>>
namesVars == <<fnCall, fnArgs, fnName>>
processorVars == <<muInput, muOut>>
factoryVars == <<gsPc, gsHolder, gsQueue, bfInitialized, bfInitCalls>>
validatorVars == <<vlImage, vlVerdict>>
raceVars == <<rcPc, rcModel, rcVerdict, rcResult, rcSaves>>
crashVars == <<svPc, svResult, indexTorn, svLookup>>
keyVars == <<nkQuery, nkKey, nkPrevQuery, nkPrevKey>>
browserVars ==
  <<stagehand, initializing, mutex, brPc, brPrev, brInits, brSessions,
    brResult, brTornDown, brOrder>>
sourcesVars == <<msPc, msModel, msSrc, msUrls, msUrlIdx, msResult, msLog>>
\* What the service reads from config.scraperService.
configVars == <<bypassGeminiOnFailure, downloadMaxRetries, geminiMaxRetries>>
\* The variables of the single-source pipeline other than the cache.
pipelineVars ==
  <<configVars, pc, model, urls,
    urlIdx, attempt, currentDelay, geminiAttempt, geminiCurrentDelay,
    imageBuffer, actualGeminiResult, scrapingResult, result, calls, cand,
    indexAtStart, debugWritable>>
\* What a step of the single-source pipeline leaves alone.
auxVars ==
  <<sourcesVars, crashVars, keyVars, browserVars, raceVars, validatorVars,
    processorVars, factoryVars, namesVars>>
\* What a step of each of the other components leaves alone, the cache
\* apart.
exceptSources ==
  <<pipelineVars, crashVars, keyVars, browserVars, raceVars, validatorVars,
    processorVars, factoryVars, namesVars>>
exceptCrash ==
  <<pipelineVars, sourcesVars, keyVars, browserVars, raceVars, validatorVars,
    processorVars, factoryVars, namesVars>>
exceptKeys ==
  <<cacheVars, pipelineVars, sourcesVars, crashVars, browserVars, raceVars,
    validatorVars, processorVars, factoryVars, namesVars>>
exceptBrowser ==
  <<cacheVars, pipelineVars, sourcesVars, crashVars, keyVars, raceVars,
    validatorVars, processorVars, factoryVars, namesVars>>
exceptRace ==
  <<pipelineVars, sourcesVars, crashVars, keyVars, browserVars, validatorVars,
    processorVars, factoryVars, namesVars>>
exceptValidator ==
  <<cacheVars, pipelineVars, sourcesVars, crashVars, keyVars, browserVars,
    raceVars, processorVars, factoryVars, namesVars>>
exceptProcessor ==
  <<cacheVars, pipelineVars, sourcesVars, crashVars, keyVars, browserVars,
    raceVars, validatorVars, factoryVars, namesVars>>
exceptFactory ==
  <<cacheVars, pipelineVars, sourcesVars, crashVars, keyVars, browserVars,
    raceVars, validatorVars, processorVars, namesVars>>
exceptNames ==
  <<cacheVars, pipelineVars, sourcesVars, crashVars, keyVars, browserVars,
    raceVars, validatorVars, processorVars, factoryVars>>
vars == <<cacheVars, pipelineVars, auxVars>>

EmptyMap == [k \in {} |-> <<>>]
SourceName == "search-engine"
UrlList == <<"url-1", "url-2", "url-3", "url-4">>

\* A ScrapingResult with every optional member undefined.
BlankResult ==
  [success |-> FALSE, model |-> Undefined, source |-> "<undefined>",
   error |-> NoError, rawDownloadedPath |-> Undefined,
   geminiInputPath |-> Undefined, geminiApprovedRawPath |-> Undefined,
   geminiRejectedPath |-> Undefined, finalProcessedPath |-> Undefined,
   geminiValidationStatus |-> "<undefined>", originalImageUrl |-> "<undefined>"]

\* The literal at the head of downloadAndValidate.
NewScrapingResult(model_, url, sourceName) ==
  [BlankResult EXCEPT !.model = model_, !.originalImageUrl = url,
                      !.source = sourceName, !.geminiValidationStatus = "n/a"]

\* The literal getShoeImage returns when no candidate succeeded.
NotFoundResult ==
  [BlankResult EXCEPT !.error = "No valid product image found from any source."]

NoCalls ==
  [search |-> FALSE, download |-> FALSE, structural |-> FALSE,
   semantic |-> FALSE, semanticAnswered |-> FALSE, normalize |-> FALSE,
   saveImage |-> FALSE]

\* History of one downloadAndValidate call: calls made, faults met, the
\* waits of the download loop in order, and how the last semantic call ended.
NewCand ==
  [downloads |-> 0, downloadFailures |-> 0, structuralRejected |-> FALSE,
   semanticCalls |-> 0, semanticFaults |-> 0, lastSemantic |-> "none",
   processingFaults |-> 0, stored |-> FALSE, delays |-> <<>>,
   geminiDelays |-> <<>>]

\* The bypass verdict of downloadAndValidate.
BypassVerdict(model_) ==
  [usable |-> FALSE, brand |-> BypassedBrand, model |-> model_, isShoe |-> TRUE]

\* The result literals of the orchestrator over several sources.
MsBlankResult ==
  [success |-> FALSE, localPath |-> Undefined, source |-> "<undefined>",
   imageUrl |-> "<undefined>", error |-> NoError]

SourcesInit ==
  /\ msPc = "idle"
  /\ msModel = <<>>
  /\ msSrc = 0
  /\ msUrls = <<>>
  /\ msUrlIdx = 0
  /\ msResult = MsBlankResult
  /\ msLog = <<>>

CrashInit ==
  /\ svPc = "idle"
  /\ svResult = <<>>
  /\ indexTorn = FALSE
  /\ svLookup = Null

KeysInit ==
  /\ nkQuery = <<>>
  /\ nkKey = Undefined
  /\ nkPrevQuery = <<>>
  /\ nkPrevKey = Undefined

Callers == 1..NumCallers

\* The static initialisers of SearchEngineSource; no call yet.
BrowserInit ==
  /\ stagehand = FALSE
  /\ initializing = "null"
  /\ mutex = 0
  /\ brPc = [c \in Callers |-> "out"]
  /\ brPrev = [c \in Callers |-> 0]
  /\ brInits = 0
  /\ brSessions = 0
  /\ brResult = [c \in Callers |-> "none"]
  /\ brTornDown = {}
  /\ brOrder = <<>>

Requests == 1..NumRequests

\* No getShoeImage call yet.
RaceInit ==
  /\ rcPc = [r \in Requests |-> "idle"]
  /\ rcModel = [r \in Requests |-> <<>>]
  /\ rcVerdict = [r \in Requests |-> Null]
  /\ rcResult = [r \in Requests |-> Null]
  /\ rcSaves = <<>>

\* No image validated yet.
ValidatorInit ==
  /\ vlImage = [width |-> 0, height |-> 0, channels |-> 0, dark |-> {}, low |-> 0]
  /\ vlVerdict = <<>>

\* No image processed yet.
ProcessorInit ==
  /\ muInput = [width |-> 10, height |-> 10, rotate |-> FALSE]
  /\ muOut = <<>>

\* The BrowserFactory singleton and the source's mutex as constructed.
FactoryInit ==
  /\ gsPc = [c \in Callers |-> "out"]
  /\ gsHolder = 0
  /\ gsQueue = <<>>
  /\ bfInitialized = FALSE
  /\ bfInitCalls = 0

\* No file written yet.
NamesInit ==
  /\ fnCall = "saveImage"
  /\ fnArgs = <<BrandX, ModelJoined>>
  /\ fnName = <<>>

AuxInit ==
  /\ SourcesInit /\ CrashInit /\ KeysInit /\ BrowserInit /\ RaceInit
  /\ ValidatorInit /\ ProcessorInit /\ FactoryInit /\ NamesInit

\* new CacheService() over an empty cache directory; no request yet.
PipelineStart ==
  /\ cacheIndex = EmptyMap
  /\ indexFile = EmptyMap
  /\ files = {}
  /\ bypassGeminiOnFailure \in BOOLEAN
  /\ pc = "idle"
  /\ model = <<>>
  /\ urls = <<>>
  /\ urlIdx = 0
  /\ attempt = 0
  /\ currentDelay = 0
  /\ geminiAttempt = 0
  /\ geminiCurrentDelay = 0
  /\ imageBuffer = NoImage
  /\ actualGeminiResult = <<>>
  /\ scrapingResult = BlankResult
  /\ result = BlankResult
  /\ calls = NoCalls
  /\ cand = NewCand
  /\ indexAtStart = <<EmptyMap, EmptyMap>>
  /\ debugWritable = TRUE

\* The retry maxima with SCRAPER_DOWNLOAD_MAX_RETRIES and
\* SCRAPER_GEMINI_MAX_RETRIES unset.
RetriesFromDefaults ==
  /\ downloadMaxRetries = DownloadMaxRetries
  /\ geminiMaxRetries = GeminiMaxRetries

PipelineInit == PipelineStart /\ RetriesFromDefaults

Init == AuxInit /\ PipelineInit

\* The retry maxima with the two environment variables set: no attempt
\* or the default count, and for the download loop one attempt as well.
InitConfigured ==
  /\ AuxInit
  /\ PipelineStart
  /\ downloadMaxRetries \in {0, 1, DownloadMaxRetries}
  /\ geminiMaxRetries \in {0, GeminiMaxRetries}

\* imageBuffer, actualGeminiResult and the variables of the semantic loop
\* are declared inside the try block of one download attempt and are gone
\* when it is left.
LeaveTryBlock ==
  /\ imageBuffer' = NoImage
  /\ actualGeminiResult' = <<>>
  /\ geminiAttempt' = 0
  /\ geminiCurrentDelay' = 0

\* Entry of downloadAndValidate for candidate number i: the result literal,
\* currentDelay and the first test of the download loop.
BeginCandidate(i) ==
  /\ urlIdx' = i
  /\ LeaveTryBlock
  /\ cand' = NewCand
  /\ attempt' = 1
  /\ currentDelay' = DownloadInitialDelayMs
  /\ IF 1 <= downloadMaxRetries
     THEN /\ pc' = "download"
          /\ scrapingResult' = NewScrapingResult(model, UrlList[i], SourceName)
     ELSE /\ pc' = "returned"
          /\ scrapingResult' =
               [NewScrapingResult(model, UrlList[i], SourceName) EXCEPT
                  !.error = "Failed to download image (unexpected loop exit)."]

\* getShoeImage up to its first await: the cache lookup and the fast path.
StartRequest ==
  /\ pc \in {"idle", "done"}
  /\ \E q \in Queries :
       LET cachedPath == getCachedImage(cacheIndex, files, q) IN
       /\ model' = q
       /\ IF cachedPath # Null
          THEN /\ pc' = "done"
               /\ result' = [BlankResult EXCEPT
                               !.success = TRUE, !.model = q,
                               !.geminiValidationStatus = "n/a",
                               !.finalProcessedPath = cachedPath,
                               !.source = "cache"]
          ELSE /\ pc' = "search"
               /\ result' = BlankResult
  /\ calls' = NoCalls
  /\ cand' = NewCand
  /\ indexAtStart' = <<cacheIndex, indexFile>>
  /\ debugWritable' \in BOOLEAN
  /\ urls' = <<>>
  /\ urlIdx' = 0
  /\ attempt' = 0
  /\ currentDelay' = 0
  /\ geminiAttempt' = 0
  /\ geminiCurrentDelay' = 0
  /\ imageBuffer' = NoImage
  /\ actualGeminiResult' = <<>>
  /\ scrapingResult' = BlankResult
  /\ UNCHANGED <<cacheVars, configVars>>
  /\ UNCHANGED auxVars

\* The for loop of retryPageOperation from one value of attempt on, for an
\* fn that fails its first `failures` calls: the number of calls of fn made
\* in all, and whether the operation threw.
RECURSIVE RetryFrom(_, _, _)
RetryFrom(attempt_, maxRetries, failures) ==
  IF ~(attempt_ <= maxRetries)
  THEN [calls |-> attempt_ - 1, threw |-> TRUE]
  ELSE IF attempt_ > failures
       THEN [calls |-> attempt_, threw |-> FALSE]
       ELSE IF attempt_ = maxRetries
            THEN [calls |-> attempt_, threw |-> TRUE]
            ELSE RetryFrom(attempt_ + 1, maxRetries, failures)

retryPageOperation(maxRetries, failures) == RetryFrom(1, maxRetries, failures)

\* SearchEngineSource.searchImage resolves (with [] after an automation
\* error, which it catches itself) and the for..of loop is entered.
\* pageOperationRetries is whatever the configuration holds.
SearchImage ==
  /\ pc = "search"
  /\ \E n \in 0..MaxUrls, maxRetries \in 0..MaxPageRetries,
        failures \in 0..MaxPageRetries :
       /\ retryPageOperation(maxRetries, failures).threw => n = 0
       /\ urls' = SubSeq(UrlList, 1, n)
       /\ IF n = 0
          THEN /\ pc' = "done"
               /\ result' = NotFoundResult
               /\ UNCHANGED <<urlIdx, cand, attempt, currentDelay, scrapingResult,
                              geminiAttempt, geminiCurrentDelay, imageBuffer,
                              actualGeminiResult>>
          ELSE /\ BeginCandidate(1)
               /\ UNCHANGED result
  /\ calls' = [calls EXCEPT !.search = TRUE]
  /\ UNCHANGED <<cacheVars, configVars, model, indexAtStart, debugWritable>>
  /\ UNCHANGED auxVars

\* A backoff that forgets to double.
NextDelay_Constant(d) == d

\* currentDelay *= 2 / geminiCurrentDelay *= 2
NextDelay(d) == d * 2

\* The catch of the download loop, reached by a failed download and by an
\* exception of makeUnique or saveImage alike: on the last attempt the call
\* returns, otherwise it waits currentDelay.  sr and c are scrapingResult
\* and the candidate's history at the throw.
CatchDownloadLoop(errorMessage, sr, c) ==
  /\ IF attempt = downloadMaxRetries
     THEN /\ pc' = "returned"
          /\ scrapingResult' =
               [sr EXCEPT !.error = "Failed to download and process image after all attempts"]
          /\ cand' = c
     ELSE /\ pc' = "backoff"
          /\ scrapingResult' = [sr EXCEPT !.error = errorMessage]
          /\ cand' = [c EXCEPT !.delays = Append(@, currentDelay)]
  /\ LeaveTryBlock
  /\ UNCHANGED <<attempt, currentDelay>>

\* A download loop that does not count its attempts.
Backoff_NoIncrement ==
  /\ pc = "backoff"
  /\ currentDelay' = NextDelay(currentDelay)
  /\ attempt' = attempt
  /\ IF attempt <= downloadMaxRetries
     THEN pc' = "download" /\ UNCHANGED scrapingResult
     ELSE /\ pc' = "returned"
          /\ scrapingResult' =
               [scrapingResult EXCEPT
                  !.error = "Failed to download image (unexpected loop exit)."]
  /\ UNCHANGED <<cacheVars, configVars, model, urls, urlIdx,
                 geminiAttempt, geminiCurrentDelay, imageBuffer,
                 actualGeminiResult, result, calls, cand, indexAtStart, debugWritable>>
  /\ UNCHANGED auxVars

\* The timer of the download loop fires: the delay doubles and the loop
\* tests attempt <= downloadMaxRetries again.
Backoff ==
  /\ pc = "backoff"
  /\ currentDelay' = NextDelay(currentDelay)
  /\ attempt' = attempt + 1
  /\ IF attempt + 1 <= downloadMaxRetries
     THEN pc' = "download" /\ UNCHANGED scrapingResult
     ELSE /\ pc' = "returned"
          /\ scrapingResult' =
               [scrapingResult EXCEPT
                  !.error = "Failed to download image (unexpected loop exit)."]
  /\ UNCHANGED <<cacheVars, configVars, model, urls, urlIdx,
                 geminiAttempt, geminiCurrentDelay, imageBuffer,
                 actualGeminiResult, result, calls, cand, indexAtStart, debugWritable>>
  /\ UNCHANGED auxVars

\* axios.get settles: it rejects, or it delivers bytes, which are saved as
\* the raw-download artifact (a best-effort write).
Download ==
  /\ pc = "download"
  /\ calls' = [calls EXCEPT !.download = TRUE]
  /\ \/ /\ CatchDownloadLoop("Axios error", scrapingResult,
                             [cand EXCEPT !.downloads = @ + 1,
                                          !.downloadFailures = @ + 1])
        /\ UNCHANGED files
     \/ \E img \in Images :
          LET raw == saveIntermediateImage(files, model, StageRawDownload, debugWritable) IN
          /\ imageBuffer' = img
          /\ files' = raw.dir
          /\ scrapingResult' = [scrapingResult EXCEPT
                                  !.rawDownloadedPath = raw.path,
                                  !.geminiInputPath = raw.path]
          /\ cand' = [cand EXCEPT !.downloads = @ + 1]
          /\ pc' = "structural"
          /\ UNCHANGED <<attempt, currentDelay, geminiAttempt,
                         geminiCurrentDelay, actualGeminiResult>>
  /\ UNCHANGED <<cacheIndex, indexFile, configVars, model, urls,
                 urlIdx, result, indexAtStart, debugWritable>>
  /\ UNCHANGED auxVars

\* The structural stage without the return of its failure branch: the error
\* is recorded and the semantic stage runs all the same.
Structural_NoReturn ==
  /\ pc = "structural"
  /\ calls' = [calls EXCEPT !.structural = TRUE]
  /\ scrapingResult' =
       IF ~ValidatorValidateImage(imageBuffer)
       THEN [scrapingResult EXCEPT !.error = "Image failed basic validation"]
       ELSE scrapingResult
  /\ cand' = [cand EXCEPT
                !.structuralRejected = ~ValidatorValidateImage(imageBuffer)]
  /\ pc' = "semantic"
  /\ actualGeminiResult' = <<>>
  /\ geminiAttempt' = 1
  /\ geminiCurrentDelay' = GeminiInitialDelayMs
  /\ UNCHANGED <<cacheVars, configVars, model, urls, urlIdx,
                 attempt, currentDelay, imageBuffer, result, indexAtStart,
                 debugWritable>>
  /\ UNCHANGED auxVars

\* The structural stage with negative caching: a rejected candidate is
\* remembered in the index under the query's key, with no file.
Structural_RemembersRejection ==
  /\ pc = "structural"
  /\ calls' = [calls EXCEPT !.structural = TRUE]
  /\ IF ~ValidatorValidateImage(imageBuffer)
     THEN /\ scrapingResult' =
               [scrapingResult EXCEPT !.error = "Image failed basic validation"]
          /\ cand' = [cand EXCEPT !.structuralRejected = TRUE]
          /\ pc' = "returned"
          /\ LeaveTryBlock
          /\ cacheIndex' = MapSet(cacheIndex, normalizeKey(model), <<>>)
          /\ indexFile' = cacheIndex'
          /\ UNCHANGED files
     ELSE /\ pc' = "semantic"
          /\ actualGeminiResult' = <<>>
          /\ geminiAttempt' = 1
          /\ geminiCurrentDelay' = GeminiInitialDelayMs
          /\ UNCHANGED <<scrapingResult, imageBuffer, cand, cacheVars>>
  /\ UNCHANGED <<configVars, model, urls, urlIdx,
                 attempt, currentDelay, result, indexAtStart, debugWritable>>
  /\ UNCHANGED auxVars

\* this.validator.validateImage resolves; a failed check returns at once.
Structural ==
  /\ pc = "structural"
  /\ calls' = [calls EXCEPT !.structural = TRUE]
  /\ IF ~ValidatorValidateImage(imageBuffer)
     THEN /\ scrapingResult' =
               [scrapingResult EXCEPT !.error = "Image failed basic validation"]
          /\ cand' = [cand EXCEPT !.structuralRejected = TRUE]
          /\ pc' = "returned"
          /\ LeaveTryBlock
     ELSE /\ IF 1 <= geminiMaxRetries
             THEN /\ pc' = "semantic"
                  /\ actualGeminiResult' = <<>>
                  /\ geminiAttempt' = 1
                  /\ geminiCurrentDelay' = GeminiInitialDelayMs
                  /\ UNCHANGED <<scrapingResult, imageBuffer>>
             ELSE /\ pc' = "returned"
                  /\ LeaveTryBlock
                  /\ scrapingResult' =
                       [scrapingResult EXCEPT
                          !.error = IF @ # NoError THEN @
                                    ELSE "LLM validation failed (Gemini rejected or failed and bypass off)"]
          /\ UNCHANGED cand
  /\ UNCHANGED <<cacheVars, configVars, model, urls, urlIdx,
                 attempt, currentDelay, result, indexAtStart, debugWritable>>
  /\ UNCHANGED auxVars

\* How a call of the vision model ended, as the caller of validateImage
\* could tell it apart if validateImage let it.
CallClass(call) ==
  IF call.kind \in {"timeout", "error"} THEN "fault"
  ELSE IF call.kind \in {"blocked", "unparseable"} THEN "malformed"
  ELSE IF call.json.usable THEN "usable" ELSE "unusable"

\* One pass of the semantic retry loop, and, when the loop is left, the
\* checks that follow it up to the await of makeUnique.
Semantic ==
  /\ pc = "semantic"
  /\ \E call \in GeminiCalls :
       /\ calls' = [calls EXCEPT !.semantic = TRUE,
                                 !.semanticAnswered = @ \/ CallClass(call) # "fault"]
       /\ LET ret == GeminiValidateImage(imageBuffer, model, call)
              c1 == [cand EXCEPT !.semanticCalls = @ + 1,
                                 !.semanticFaults =
                                    IF CallClass(call) = "fault" THEN @ + 1 ELSE @,
                                 !.lastSemantic = CallClass(call)]
          IN
          IF ~ret.threw
          THEN IF ret.value # <<>>
               THEN \* approved by the validator
                    LET w == saveIntermediateImage(files, model, StageGeminiApprovedRaw, debugWritable)
                        sr1 == [scrapingResult EXCEPT
                                  !.geminiValidationStatus = "approved",
                                  !.geminiApprovedRawPath = w.path,
                                  !.geminiInputPath = w.path]
                    IN
                    /\ files' = w.dir
                    /\ cand' = c1
                    /\ IF ~ret.value[1].isShoe
                       THEN /\ scrapingResult' =
                                 [sr1 EXCEPT
                                    !.geminiValidationStatus = "rejected",
                                    !.geminiRejectedPath = sr1.geminiApprovedRawPath,
                                    !.geminiApprovedRawPath = Null,
                                    !.error = "LLM validation: Image is not a shoe."]
                            /\ pc' = "returned"
                            /\ LeaveTryBlock
                       ELSE /\ scrapingResult' = sr1
                            /\ actualGeminiResult' = ret.value
                            /\ pc' = "process"
                            /\ UNCHANGED <<geminiAttempt, geminiCurrentDelay,
                                           imageBuffer>>
               ELSE \* validateImage resolved with null
                    LET w == saveIntermediateImage(files, model, StageGeminiRejected, debugWritable) IN
                    /\ files' = w.dir
                    /\ cand' = c1
                    /\ scrapingResult' =
                         [scrapingResult EXCEPT
                            !.geminiValidationStatus = "rejected",
                            !.geminiRejectedPath = w.path,
                            !.error = IF @ # NoError THEN @
                                      ELSE "LLM validation failed (Gemini rejected or failed and bypass off)"]
                    /\ pc' = "returned"
                    /\ LeaveTryBlock
          ELSE \* catch (geminiError)
               IF geminiAttempt = geminiMaxRetries
               THEN IF bypassGeminiOnFailure
                    THEN LET w == saveIntermediateImage(files, model, StageGeminiBypassedInput, debugWritable) IN
                         /\ files' = w.dir
                         /\ actualGeminiResult' = <<BypassVerdict(model)>>
                         /\ cand' = c1
                         /\ scrapingResult' =
                              [scrapingResult EXCEPT
                                 !.geminiValidationStatus = "bypassed",
                                 !.geminiInputPath = w.path]
                         /\ pc' = "process"
                         /\ UNCHANGED <<geminiAttempt, geminiCurrentDelay,
                                        imageBuffer>>
                    ELSE /\ scrapingResult' =
                              [scrapingResult EXCEPT
                                 !.geminiValidationStatus = "failed_to_validate",
                                 !.error = "LLM validation failed after all attempts"]
                         /\ cand' = c1
                         /\ pc' = "returned"
                         /\ LeaveTryBlock
                         /\ UNCHANGED files
               ELSE /\ cand' = [c1 EXCEPT !.geminiDelays = Append(@, geminiCurrentDelay)]
                    /\ geminiCurrentDelay' = NextDelay(geminiCurrentDelay)
                    /\ geminiAttempt' = geminiAttempt + 1
                    /\ pc' = "semantic"
                    /\ UNCHANGED <<files, actualGeminiResult, scrapingResult,
                                   imageBuffer>>
  /\ UNCHANGED <<cacheIndex, indexFile, configVars, model, urls,
                 urlIdx, attempt, currentDelay, result, indexAtStart, debugWritable>>
  /\ UNCHANGED auxVars

\* saveImage that swallows the error of the image write.
saveImage_IgnoresWriteError(index, onDisk, dir, geminiResult, fault) ==
  LET filename == generateSeoFilename(geminiResult)
      key == normalizeKey(geminiResult.model)
  IN
  IF fault = "imageWrite"
  THEN [threw |-> FALSE, index |-> MapSet(index, key, filename),
        onDisk |-> MapSet(index, key, filename), dir |-> dir,
        path |-> ImagesPrefix \o filename]
  ELSE IF fault = "indexWrite"
  THEN [threw |-> TRUE, index |-> MapSet(index, key, filename),
        onDisk |-> onDisk, dir |-> dir \cup {filename}, path |-> Undefined]
  ELSE [threw |-> FALSE, index |-> MapSet(index, key, filename),
        onDisk |-> MapSet(index, key, filename), dir |-> dir \cup {filename},
        path |-> ImagesPrefix \o filename]

\* CacheService.saveImage(geminiResult, buffer): the image file is written,
\* the Map is set under normalizeKey(geminiResult.model), index.json is
\* written.  fault names the write that throws, if one does.
saveImage(index, onDisk, dir, geminiResult, fault) ==
  LET filename == generateSeoFilename(geminiResult)
      key == normalizeKey(geminiResult.model)
  IN
  IF fault = "imageWrite"
  THEN [threw |-> TRUE, index |-> index, onDisk |-> onDisk, dir |-> dir,
        path |-> Undefined]
  ELSE IF fault = "indexWrite"
  THEN [threw |-> TRUE, index |-> MapSet(index, key, filename),
        onDisk |-> onDisk, dir |-> dir \cup {filename}, path |-> Undefined]
  ELSE [threw |-> FALSE, index |-> MapSet(index, key, filename),
        onDisk |-> MapSet(index, key, filename), dir |-> dir \cup {filename},
        path |-> ImagesPrefix \o filename]

ProcessFaults == {"none", "normalize", "imageWrite", "indexWrite"}

\* makeUnique settles and, when it resolved, saveImage runs and the call
\* returns success; an exception of either lands in the catch of the
\* download loop.
Process ==
  /\ pc = "process"
  /\ \E fault \in ProcessFaults :
       IF fault = "normalize"
       THEN /\ calls' = [calls EXCEPT !.normalize = TRUE]
            /\ CatchDownloadLoop("Processing error", scrapingResult,
                                 [cand EXCEPT !.processingFaults = @ + 1])
            /\ UNCHANGED cacheVars
       ELSE LET st == saveImage(cacheIndex, indexFile, files,
                                actualGeminiResult[1], fault) IN
            /\ calls' = [calls EXCEPT !.normalize = TRUE, !.saveImage = TRUE]
            /\ cacheIndex' = st.index
            /\ indexFile' = st.onDisk
            /\ files' = st.dir
            /\ IF st.threw
               THEN CatchDownloadLoop("Processing error", scrapingResult,
                                      [cand EXCEPT !.processingFaults = @ + 1])
               ELSE /\ scrapingResult' =
                         [scrapingResult EXCEPT
                            !.finalProcessedPath = st.path,
                            !.success = TRUE,
                            !.model = actualGeminiResult[1].model]
                    /\ cand' = [cand EXCEPT !.stored = TRUE]
                    /\ pc' = "returned"
                    /\ LeaveTryBlock
                    /\ UNCHANGED <<attempt, currentDelay>>
  /\ UNCHANGED <<configVars, model, urls, urlIdx, result,
                 indexAtStart, debugWritable>>
  /\ UNCHANGED auxVars

\* The for..of loop with a `break` on the first failed candidate: whatever
\* downloadAndValidate resolved with ends the request.
LoopNext_StopAtFirstFailure ==
  /\ pc = "returned"
  /\ pc' = "done"
  /\ result' = IF scrapingResult.success THEN scrapingResult ELSE NotFoundResult
  /\ UNCHANGED <<cacheVars, configVars, model, urls, urlIdx,
                 attempt, currentDelay, geminiAttempt, geminiCurrentDelay,
                 imageBuffer, actualGeminiResult, scrapingResult, calls, cand,
                 indexAtStart, debugWritable>>
  /\ UNCHANGED auxVars

\* getShoeImage after downloadAndValidate resolved: return the success, go
\* on with the next candidate, or return the not-found literal.
LoopNext ==
  /\ pc = "returned"
  /\ IF scrapingResult.success
     THEN /\ pc' = "done"
          /\ result' = scrapingResult
          /\ UNCHANGED <<urlIdx, cand, attempt, currentDelay, scrapingResult,
                         geminiAttempt, geminiCurrentDelay, imageBuffer,
                         actualGeminiResult>>
     ELSE IF urlIdx < Len(urls)
     THEN /\ BeginCandidate(urlIdx + 1)
          /\ UNCHANGED result
     ELSE /\ pc' = "done"
          /\ result' = NotFoundResult
          /\ UNCHANGED <<urlIdx, cand, attempt, currentDelay, scrapingResult,
                         geminiAttempt, geminiCurrentDelay, imageBuffer,
                         actualGeminiResult>>
  /\ UNCHANGED <<cacheVars, configVars, model, urls, calls,
                 indexAtStart, debugWritable>>
  /\ UNCHANGED auxVars

Next ==
  \/ StartRequest
  \/ SearchImage
  \/ Download
  \/ Structural
  \/ Semantic
  \/ Process
  \/ Backoff
  \/ LoopNext

Spec == Init /\ [][Next]_vars

\* The pipeline under any configured retry maxima, with every awaited call
\* settling: axios.get has a timeout, the vision model a hard timeout, and
\* timers fire.
SpecConfigured ==
  /\ InitConfigured
  /\ [][Next]_vars
  /\ WF_vars(SearchImage)
  /\ WF_vars(Download)
  /\ WF_vars(Structural)
  /\ WF_vars(Semantic)
  /\ WF_vars(Process)
  /\ WF_vars(Backoff)
  /\ WF_vars(LoopNext)

\* ---------------------------------------------------- the test's cleanup
\* runTests, after its last request was answered: every file of the image
\* directory except index.json is unlinked and the process exits.  The
\* service that starts next loads index.json into its Map.
Cleanup ==
  /\ pc \in {"idle", "done"}
  /\ files # {}
  /\ files' = {}
  /\ cacheIndex' = indexFile
  /\ UNCHANGED <<indexFile, configVars>>
  /\ pc' = "idle"
  /\ model' = <<>>
  /\ urls' = <<>>
  /\ urlIdx' = 0
  /\ attempt' = 0
  /\ currentDelay' = 0
  /\ geminiAttempt' = 0
  /\ geminiCurrentDelay' = 0
  /\ imageBuffer' = NoImage
  /\ actualGeminiResult' = <<>>
  /\ scrapingResult' = BlankResult
  /\ result' = BlankResult
  /\ calls' = NoCalls
  /\ cand' = NewCand
  /\ indexAtStart' = <<EmptyMap, EmptyMap>>
  /\ debugWritable' = TRUE
  /\ UNCHANGED auxVars

NextCleanup ==
  \/ Next
  \/ Cleanup

SpecCleanup == Init /\ [][NextCleanup]_vars

\* ------------------------------------------- orchestrator, several sources
\* this.sources, in the order of the constructor.
Sources == <<"google-shopping", "search-engine">>

\* GoogleShoppingSource.searchImage awaits getBrowserPage outside its try,
\* so a failed browser start rejects the call; SearchEngineSource catches
\* every error of its body and resolves with [].
SourceCanThrow(name) == name = "google-shopping"

MsNotFound ==
  [MsBlankResult EXCEPT !.error = "No valid product image found from any source."]

\* The outer for..of: the loop over source number i is over (its list ran
\* out, or searchImage threw and the catch logged it).
MsLeaveSource(i) ==
  IF i < Len(Sources)
  THEN /\ msPc' = "search"
       /\ msSrc' = i + 1
       /\ msUrls' = <<>>
       /\ msUrlIdx' = 0
       /\ UNCHANGED msResult
  ELSE /\ msPc' = "done"
       /\ msResult' = MsNotFound
       /\ UNCHANGED <<msSrc, msUrls, msUrlIdx>>

\* getShoeImage up to its first await.
MsStartRequest ==
  /\ msPc \in {"idle", "done"}
  /\ \E q \in Queries :
       LET cachedPath == getCachedImage(cacheIndex, files, q) IN
       /\ msModel' = q
       /\ IF cachedPath # Null
          THEN /\ msPc' = "done"
               /\ msSrc' = 0
               /\ msResult' = [MsBlankResult EXCEPT !.success = TRUE,
                                                    !.localPath = cachedPath,
                                                    !.source = "cache"]
          ELSE /\ msPc' = "search"
               /\ msSrc' = 1
               /\ msResult' = MsBlankResult
  /\ msUrls' = <<>>
  /\ msUrlIdx' = 0
  /\ msLog' = <<>>
  /\ UNCHANGED <<cacheVars, exceptSources>>

\* searchImage that lets the error of a source end the request.
MsSearchImage_ThrowAborts ==
  /\ msPc = "search"
  /\ \/ /\ SourceCanThrow(Sources[msSrc])
        /\ msLog' = Append(msLog, <<Sources[msSrc], "threw">>)
        /\ msPc' = "done"
        /\ msResult' = MsNotFound
        /\ UNCHANGED <<msSrc, msUrls, msUrlIdx>>
     \/ \E n \in 0..MaxUrls :
          /\ msLog' = Append(msLog, <<Sources[msSrc],
                                      IF n = 0 THEN "empty" ELSE "urls">>)
          /\ IF n = 0
             THEN MsLeaveSource(msSrc)
             ELSE /\ msUrls' = SubSeq(UrlList, 1, n)
                  /\ msUrlIdx' = 1
                  /\ msPc' = "candidate"
                  /\ UNCHANGED <<msSrc, msResult>>
  /\ UNCHANGED <<msModel, cacheVars, exceptSources>>

\* source.searchImage settles: it rejects and the catch logs the error, or
\* it resolves with a list (empty after an error the source caught).
MsSearchImage ==
  /\ msPc = "search"
  /\ \/ /\ SourceCanThrow(Sources[msSrc])
        /\ msLog' = Append(msLog, <<Sources[msSrc], "threw">>)
        /\ MsLeaveSource(msSrc)
     \/ \E n \in 0..MaxUrls :
          /\ msLog' = Append(msLog, <<Sources[msSrc],
                                      IF n = 0 THEN "empty" ELSE "urls">>)
          /\ IF n = 0
             THEN MsLeaveSource(msSrc)
             ELSE /\ msUrls' = SubSeq(UrlList, 1, n)
                  /\ msUrlIdx' = 1
                  /\ msPc' = "candidate"
                  /\ UNCHANGED <<msSrc, msResult>>
  /\ UNCHANGED <<msModel, cacheVars, exceptSources>>

\* An inner for..of that gives a source up after its first failed candidate.
MsNextCandidate_LeavesSourceEarly == MsLeaveSource(msSrc)

\* The inner for..of after a candidate failed.
MsNextCandidate ==
  IF msUrlIdx < Len(msUrls)
  THEN /\ msUrlIdx' = msUrlIdx + 1
       /\ UNCHANGED <<msPc, msSrc, msUrls, msResult>>
  ELSE MsLeaveSource(msSrc)

\* downloadAndValidate of this orchestrator, for the candidate at msUrlIdx:
\* one attempt, every exception answered with a failure value.
MsDownloadAndValidate ==
  /\ msPc = "candidate"
  /\ \/ /\ MsNextCandidate                       \* axios.get rejected
        /\ UNCHANGED cacheVars
     \/ \E img \in Images, call \in GeminiCalls, fault \in ProcessFaults :
          LET ret == GeminiValidateImage(img, msModel, call) IN
          IF ret.value = <<>> \/ fault = "normalize"
          THEN /\ MsNextCandidate
               /\ UNCHANGED cacheVars
          ELSE LET st == saveImage(cacheIndex, indexFile, files, ret.value[1], fault) IN
               /\ cacheIndex' = st.index
               /\ indexFile' = st.onDisk
               /\ files' = st.dir
               /\ IF st.threw
                  THEN MsNextCandidate
                  ELSE /\ msPc' = "done"
                       /\ msResult' = [MsBlankResult EXCEPT
                                          !.success = TRUE,
                                          !.imageUrl = msUrls[msUrlIdx],
                                          !.localPath = st.path,
                                          !.source = Sources[msSrc]]
                       /\ UNCHANGED <<msSrc, msUrls, msUrlIdx>>
  /\ UNCHANGED <<msModel, msLog, exceptSources>>

NextSources ==
  \/ MsStartRequest
  \/ MsSearchImage
  \/ MsDownloadAndValidate

SpecSources == Init /\ [][NextSources]_vars

\* ------------------------------------------------- saveImage and crashes
\* The verdicts saveImage is called with.
SavedVerdicts ==
  [usable : {TRUE}, brand : {BrandX}, model : CanonicalModels, isShoe : {TRUE}]

\* saveImage is entered.
SvCall ==
  /\ svPc = "idle"
  /\ \E g \in SavedVerdicts : svResult' = <<g>>
  /\ svPc' = "writeImage"
  /\ UNCHANGED <<cacheVars, indexTorn, svLookup, exceptCrash>>

\* fs.writeFileSync(filepath, imageBuffer)
SvWriteImage ==
  /\ svPc = "writeImage"
  /\ files' = files \cup {generateSeoFilename(svResult[1])}
  /\ svPc' = "mapSet"
  /\ UNCHANGED <<cacheIndex, indexFile, svResult, indexTorn, svLookup,
                 exceptCrash>>

\* this.cacheIndex.set(key, filename)
SvMapSet ==
  /\ svPc = "mapSet"
  /\ cacheIndex' = MapSet(cacheIndex, normalizeKey(svResult[1].model),
                          generateSeoFilename(svResult[1]))
  /\ svPc' = "writeIndex"
  /\ UNCHANGED <<indexFile, files, svResult, indexTorn, svLookup,
                 exceptCrash>>

\* this.saveCacheIndex(), and saveImage returns.
SvWriteIndex ==
  /\ svPc = "writeIndex"
  /\ indexFile' = cacheIndex
  /\ svPc' = "idle"
  /\ svResult' = <<>>
  /\ UNCHANGED <<cacheIndex, files, indexTorn, svLookup, exceptCrash>>

\* loadCacheIndex reading index.json as it starts: JSON.parse throws on a
\* cut-off text and the constructor with it; otherwise the Map is what
\* index.json holds.
loadCacheIndex(onDisk, torn) ==
  IF torn THEN [threw |-> TRUE, index |-> EmptyMap]
  ELSE [threw |-> FALSE, index |-> onDisk]

\* The process stops inside saveImage and the service is started again.
\* A stop inside a writeFileSync leaves the file as it was, created or cut
\* off, or complete; a cut-off image file exists all the same.
SvCrash ==
  /\ svPc \in {"writeImage", "mapSet", "writeIndex"}
  /\ \E imageCreated \in BOOLEAN, indexWrite \in {"none", "torn", "whole"} :
       /\ imageCreated => svPc = "writeImage"
       /\ indexWrite # "none" => svPc = "writeIndex"
       /\ files' = IF imageCreated
                   THEN files \cup {generateSeoFilename(svResult[1])}
                   ELSE files
       /\ indexFile' = IF indexWrite = "whole" THEN cacheIndex ELSE indexFile
       /\ indexTorn' = (indexWrite = "torn")
       /\ LET ld == loadCacheIndex(indexFile', indexTorn') IN
          /\ cacheIndex' = ld.index
          /\ svPc' = IF ld.threw THEN "down" ELSE "idle"
  /\ svResult' = <<>>
  /\ svLookup' = Null
  /\ UNCHANGED <<exceptCrash>>

\* getCachedImage is called, between two saveImage calls.
SvLookup ==
  /\ svPc = "idle"
  /\ \E q \in Queries \cup CanonicalModels :
       svLookup' = getCachedImage(cacheIndex, files, q)
  /\ UNCHANGED <<cacheVars, svPc, svResult, indexTorn, exceptCrash>>

NextCrash ==
  \/ SvCall
  \/ SvWriteImage
  \/ SvMapSet
  \/ SvWriteIndex
  \/ SvCrash
  \/ SvLookup

SpecCrash == Init /\ [][NextCrash]_vars

\* ----------------------------------------------- normalizeKey on its own
\* Queries over letters of both cases, a blank and a hyphen.
KeyAlphabet == {"a", "B", " ", "-"}
KeyQueries == UNION {[1..n -> KeyAlphabet] : n \in 0..MaxKeyLen}

\* Any query may be the first one.
InitKeys ==
  /\ PipelineInit /\ SourcesInit /\ CrashInit /\ BrowserInit /\ RaceInit
  /\ ValidatorInit /\ ProcessorInit /\ FactoryInit /\ NamesInit
  /\ nkQuery \in KeyQueries
  /\ nkKey = Undefined
  /\ nkPrevQuery = <<>>
  /\ nkPrevKey = Undefined

\* normalizeKey returns.
NkNormalize ==
  /\ nkKey = Undefined
  /\ nkKey' = normalizeKey(nkQuery)
  /\ UNCHANGED <<nkQuery, nkPrevQuery, nkPrevKey, exceptKeys>>

\* The next call of normalizeKey, with any query.
NkNextQuery ==
  /\ nkKey # Undefined
  /\ nkPrevQuery' = nkQuery
  /\ nkPrevKey' = nkKey
  /\ nkQuery' \in KeyQueries
  /\ nkKey' = Undefined
  /\ UNCHANGED exceptKeys

NextKeys ==
  \/ NkNormalize
  \/ NkNextQuery

SpecKeys == InitKeys /\ [][NextKeys]_vars

\* ------------------------------------------------------ SearchEngineSource
\* release(), in the finally of withLock: the promise of caller c resolves,
\* for the mutex if it still holds it and for whoever awaits it.
\* The sequence without caller c.
Without(order, c) == SelectSeq(order, LAMBDA d : d # c)

\* withLock without its finally: fn has ended and nothing is released.
Release_KeepsLock(c) ==
  /\ UNCHANGED <<mutex, brPrev>>
  /\ brOrder' = Without(brOrder, c)

Release(c) ==
  /\ mutex' = IF mutex = c THEN 0 ELSE mutex
  /\ brPrev' = [d \in Callers |-> IF brPrev[d] = c \/ d = c THEN 0 ELSE brPrev[d]]
  /\ brOrder' = Without(brOrder, c)

\* withLock that does not await the previous promise.
BrCall_NoAwait(c) ==
  /\ brPc[c] = "out"
  /\ brPrev' = [brPrev EXCEPT ![c] = 0]
  /\ mutex' = c
  /\ brPc' = [brPc EXCEPT ![c] = "awaitPrev"]
  /\ brResult' = [brResult EXCEPT ![c] = "none"]
  /\ brTornDown' = brTornDown \ {c}
  /\ brOrder' = Append(brOrder, c)
  /\ UNCHANGED <<stagehand, initializing, brInits, brSessions, exceptBrowser>>

\* searchImage is called: withLock takes the current mutex as prev, puts
\* its own pending promise in its place and awaits prev.
BrCall(c) ==
  /\ brPc[c] = "out"
  /\ brPrev' = [brPrev EXCEPT ![c] = mutex]
  /\ mutex' = c
  /\ brPc' = [brPc EXCEPT ![c] = "awaitPrev"]
  /\ brResult' = [brResult EXCEPT ![c] = "none"]
  /\ brTornDown' = brTornDown \ {c}
  /\ brOrder' = Append(brOrder, c)
  /\ UNCHANGED <<stagehand, initializing, brInits, brSessions, exceptBrowser>>

\* getBrowserPage that creates a session on every call.
BrEnter_AlwaysInit(c) ==
  /\ brPc[c] = "awaitPrev"
  /\ brPrev[c] = 0
  /\ initializing' = "pending"
  /\ brInits' = brInits + 1
  /\ brPc' = [brPc EXCEPT ![c] = "awaitInit"]
  /\ UNCHANGED <<stagehand, mutex, brPrev, brSessions, brResult, brTornDown,
                 brOrder, exceptBrowser>>

\* prev is resolved: fn starts and getBrowserPage runs up to its await, or,
\* with a session at hand, up to the first page operation.
BrEnter(c) ==
  /\ brPc[c] = "awaitPrev"
  /\ brPrev[c] = 0
  /\ IF ~stagehand
     THEN /\ IF initializing = "null"
             THEN initializing' = "pending" /\ brInits' = brInits + 1
             ELSE UNCHANGED <<initializing, brInits>>
          /\ brPc' = [brPc EXCEPT ![c] = "awaitInit"]
     ELSE /\ brPc' = [brPc EXCEPT ![c] = "pageOps"]
          /\ UNCHANGED <<initializing, brInits>>
  /\ UNCHANGED <<stagehand, mutex, brPrev, brSessions, brResult, brTornDown,
                 brOrder, exceptBrowser>>

\* sh.init() settles inside the async function held by initializing.
BrInitSettles ==
  /\ initializing = "pending"
  /\ brInits' = brInits - 1
  /\ \/ /\ stagehand' = TRUE
        /\ initializing' = "resolved"
        /\ brSessions' = brSessions + 1
     \/ /\ initializing' = "rejected"
        /\ UNCHANGED <<stagehand, brSessions>>
  /\ UNCHANGED <<mutex, brPc, brPrev, brResult, brTornDown, brOrder,
                 exceptBrowser>>

\* The callers suspended at the await of prev in withLock.
AwaitingPrev == {d \in Callers : brPc[d] = "awaitPrev"}

\* resetStagehand that leaves the initialization promise in place.
BrResetNoSession_KeepsInitializing(c) ==
  /\ stagehand' = FALSE
  /\ UNCHANGED initializing
  /\ Release(c)
  /\ brPc' = [brPc EXCEPT ![c] = "out"]
  /\ brResult' = [brResult EXCEPT ![c] = "[]"]
  /\ brTornDown' = brTornDown \cup AwaitingPrev
  /\ UNCHANGED <<brInits, brSessions>>

\* The catch of searchImage with no session to close: resetStagehand sets
\* both members to null, [] is returned and the lock released.
BrResetNoSession(c) ==
  /\ stagehand' = FALSE
  /\ initializing' = "null"
  /\ Release(c)
  /\ brPc' = [brPc EXCEPT ![c] = "out"]
  /\ brResult' = [brResult EXCEPT ![c] = "[]"]
  /\ brTornDown' = brTornDown \cup AwaitingPrev
  /\ UNCHANGED <<brInits, brSessions>>

\* The awaited initialization has settled: the page is returned, or the
\* rejection (or a session that is gone) lands in the catch.
BrAwaitInit(c) ==
  /\ brPc[c] = "awaitInit"
  /\ initializing # "pending"
  /\ IF initializing # "rejected" /\ stagehand
     THEN /\ brPc' = [brPc EXCEPT ![c] = "pageOps"]
          /\ UNCHANGED <<stagehand, initializing, mutex, brPrev, brInits,
                        brSessions, brResult, brTornDown, brOrder>>
     ELSE BrResetNoSession(c)
  /\ UNCHANGED exceptBrowser

\* The page operations end: the URLs are returned and the lock released,
\* or an error lands in the catch and resetStagehand awaits close().
BrPageOps(c) ==
  /\ brPc[c] = "pageOps"
  /\ \/ /\ Release(c)
        /\ brPc' = [brPc EXCEPT ![c] = "out"]
        /\ brResult' = [brResult EXCEPT ![c] = "imageUrls"]
        /\ UNCHANGED <<stagehand, initializing, brInits, brSessions, brTornDown>>
     \/ IF stagehand
        THEN /\ brPc' = [brPc EXCEPT ![c] = "closing"]
             /\ UNCHANGED <<stagehand, initializing, mutex, brPrev, brInits,
                        brSessions, brResult, brTornDown, brOrder>>
        ELSE BrResetNoSession(c)
  /\ UNCHANGED exceptBrowser

\* close() settles (its error is swallowed): both members are set to null,
\* [] is returned and the lock released.
BrClosed(c) ==
  /\ brPc[c] = "closing"
  /\ stagehand' = FALSE
  /\ initializing' = "null"
  /\ brSessions' = IF brSessions > 0 THEN brSessions - 1 ELSE 0
  /\ Release(c)
  /\ brPc' = [brPc EXCEPT ![c] = "out"]
  /\ brResult' = [brResult EXCEPT ![c] = "[]"]
  /\ brTornDown' = brTornDown \cup AwaitingPrev
  /\ UNCHANGED <<brInits, exceptBrowser>>

NextBrowser ==
  \/ \E c \in Callers : BrCall(c)
  \/ \E c \in Callers : BrEnter(c)
  \/ BrInitSettles
  \/ \E c \in Callers : BrAwaitInit(c)
  \/ \E c \in Callers : BrPageOps(c)
  \/ \E c \in Callers : BrClosed(c)

SpecBrowser == Init /\ [][NextBrowser]_vars

\* ------------------------------------------------------------ makeUnique
\* Array.prototype.join(', ')
RECURSIVE Join(_)
Join(strings) ==
  IF Len(strings) = 0 THEN <<>>
  ELSE IF Len(strings) = 1 THEN strings[1]
  ELSE strings[1] \o <<",", " ">> \o Join(Tail(strings))

\* exifData of makeUnique: what withExif embeds in the processed image.
exifData(geminiResult) ==
  [Copyright |-> <<"BareTread.com">>,
   Artist |-> <<"BareTread">>,
   ImageDescription |->
     <<"Official product photo of ">> \o geminiResult.brand \o <<" ">>
       \o geminiResult.model,
   UserComment |->
     IF "keywords" \in DOMAIN geminiResult /\ Len(geminiResult.keywords) > 0
     THEN Join(geminiResult.keywords)
     ELSE geminiResult.brand \o <<",", " ">> \o geminiResult.model]

\* ------------------------------------------- concurrent getShoeImage calls
\* The verdicts of the vision model that reach makeUnique: keywords may be
\* an empty list.
RaceVerdicts ==
  [usable : {TRUE}, brand : {BrandX}, model : CanonicalModels, isShoe : {TRUE},
   keywords : {<<>>, <<BrandX, ModelJoined>>}]

\* The model strings of the concurrent requests: two that normalise to one
\* key and one that normalises to another.
RaceQueries == Queries \cup {ModelJoined}

\* getShoeImage up to its first await: the cache lookup answers, or
\* searchImage is called.
RcStart(r) ==
  /\ rcPc[r] = "idle"
  /\ \E q \in RaceQueries :
       LET cachedPath == getCachedImage(cacheIndex, files, q) IN
       /\ rcModel' = [rcModel EXCEPT ![r] = q]
       /\ IF cachedPath # Null
          THEN /\ rcPc' = [rcPc EXCEPT ![r] = "done"]
               /\ rcResult' = [rcResult EXCEPT ![r] =
                     <<[success |-> TRUE, finalProcessedPath |-> cachedPath,
                        source |-> "cache"]>>]
          ELSE /\ rcPc' = [rcPc EXCEPT ![r] = "search"]
               /\ UNCHANGED rcResult
  /\ UNCHANGED <<rcVerdict, rcSaves, cacheVars, exceptRace>>

\* The literal getShoeImage returns when no candidate succeeded.
RcNotFound == <<[success |-> FALSE, finalProcessedPath |-> Undefined,
                 source |-> "<undefined>"]>>

\* searchImage settles: with no candidate (or a thrown error) the call
\* returns the failure, otherwise downloadAndValidate starts.
RcSearched(r) ==
  /\ rcPc[r] = "search"
  /\ \/ /\ rcPc' = [rcPc EXCEPT ![r] = "done"]
        /\ rcResult' = [rcResult EXCEPT ![r] = RcNotFound]
     \/ /\ rcPc' = [rcPc EXCEPT ![r] = "validate"]
        /\ UNCHANGED rcResult
  /\ UNCHANGED <<rcModel, rcVerdict, rcSaves, cacheVars, exceptRace>>

\* The download and the validators of the candidates settle: none passed
\* and the call returns the failure, or one did and makeUnique is awaited
\* with its verdict.
RcValidated(r) ==
  /\ rcPc[r] = "validate"
  /\ \/ /\ rcPc' = [rcPc EXCEPT ![r] = "done"]
        /\ rcResult' = [rcResult EXCEPT ![r] = RcNotFound]
        /\ UNCHANGED rcVerdict
     \/ \E v \in RaceVerdicts :
          /\ rcVerdict' = [rcVerdict EXCEPT ![r] = <<v>>]
          /\ rcPc' = [rcPc EXCEPT ![r] = "process"]
          /\ UNCHANGED rcResult
  /\ UNCHANGED <<rcModel, rcSaves, cacheVars, exceptRace>>

\* makeUnique resolves: saveImage runs to its end in the same turn of the
\* event loop and the call returns the success.
RcStored(r) ==
  /\ rcPc[r] = "process"
  /\ LET st == saveImage(cacheIndex, indexFile, files, rcVerdict[r][1], "none") IN
     /\ cacheIndex' = st.index
     /\ indexFile' = st.onDisk
     /\ files' = st.dir
     /\ rcSaves' = Append(rcSaves,
                          [by |-> r,
                           filename |-> generateSeoFilename(rcVerdict[r][1]),
                           exif |-> exifData(rcVerdict[r][1])])
     /\ rcResult' = [rcResult EXCEPT ![r] =
           <<[success |-> TRUE, finalProcessedPath |-> st.path,
              source |-> SourceName]>>]
  /\ rcPc' = [rcPc EXCEPT ![r] = "done"]
  /\ UNCHANGED <<rcModel, rcVerdict, exceptRace>>

NextRace ==
  \/ \E r \in Requests : RcStart(r)
  \/ \E r \in Requests : RcSearched(r)
  \/ \E r \in Requests : RcValidated(r)
  \/ \E r \in Requests : RcStored(r)

SpecRace == Init /\ [][NextRace]_vars

\* ------------------------------------------------ ValidatorService alone
InitValidator ==
  /\ PipelineInit /\ SourcesInit /\ CrashInit /\ KeysInit /\ BrowserInit
  /\ RaceInit /\ ProcessorInit /\ FactoryInit /\ NamesInit
  /\ vlImage \in RawImages
  /\ vlVerdict = <<>>

\* validateImage resolves.
VlValidate ==
  /\ vlVerdict = <<>>
  /\ vlVerdict' = <<ValidatorValidateImage(Sampled(vlImage))>>
  /\ UNCHANGED <<vlImage, exceptValidator>>

\* validateImage is called with another image.
VlNextImage ==
  /\ vlVerdict # <<>>
  /\ vlImage' \in RawImages
  /\ vlVerdict' = <<>>
  /\ UNCHANGED exceptValidator

NextValidator ==
  \/ VlValidate
  \/ VlNextImage

SpecValidator == InitValidator /\ [][NextValidator]_vars

\* ------------------------------------------- ImageProcessorService alone
\* Angles are in hundredths of a degree.
Degrees90 == 9000

\* The options of a sharp pipeline that makeUnique sets.
NewSharp == [angle |-> 0, rotationAngle |-> 0, flip |-> FALSE, brightness |-> FALSE]

\* sharp's rotate(angle): a multiple of 90 is stored as `angle`, any other
\* number as `rotationAngle`.  Whether a second call clears what the first
\* one stored depends on the version of the library (its documentation:
\* "previous calls to rotate in the same pipeline will be ignored").
SharpRotate(options, angle, ignoresPrevious) ==
  LET o == IF ignoresPrevious
           THEN [options EXCEPT !.angle = 0, !.rotationAngle = 0]
           ELSE options
  IN IF angle % Degrees90 = 0
     THEN [o EXCEPT !.angle = angle]
     ELSE [o EXCEPT !.rotationAngle = angle]

\* The size of the canvas after a rotation by half a degree either way:
\* w cos + h sin, rounded up (cos = 0.99996, sin = 0.00873).
Expanded(w, h) == (w * 99996 + h * 873 + 99999) \div 100000

\* toBuffer: the size of the image the pipeline produces.
SharpSize(w, h, options) ==
  LET w1 == IF options.angle = Degrees90 THEN h ELSE w
      h1 == IF options.angle = Degrees90 THEN w ELSE h
  IN IF options.rotationAngle # 0
     THEN [width |-> Expanded(w1, h1), height |-> Expanded(h1, w1)]
     ELSE [width |-> w1, height |-> h1]

\* The values of Math.random that matter: the transformation chosen and,
\* for the small rotation, (Math.random() - 0.5) * 2 being negative, zero
\* or positive.
Perturbations ==
  {[type |-> 0, rotation |-> 0], [type |-> 1, rotation |-> -50],
   [type |-> 1, rotation |-> 0], [type |-> 1, rotation |-> 50],
   [type |-> 2, rotation |-> 0]}

\* geminiResult.rotate || needsAutoRotate
RotatesFirst(input) ==
  input.rotate
  \/ (~input.rotate /\ input.width # 0 /\ input.height # 0
        /\ input.height * 10 > input.width * 12)

\* makeUnique up to toBuffer: the options of the pipeline and the size of
\* processedBuffer.
makeUnique(input, perturbation, ignoresPrevious) ==
  LET first == IF RotatesFirst(input)
               THEN SharpRotate(NewSharp, Degrees90, ignoresPrevious)
               ELSE NewSharp
      options ==
        IF perturbation.type = 0 THEN [first EXCEPT !.flip = TRUE]
        ELSE IF perturbation.type = 1
        THEN SharpRotate(first, perturbation.rotation, ignoresPrevious)
        ELSE [first EXCEPT !.brightness = TRUE]
      size == SharpSize(input.width, input.height, options)
  IN [width |-> size.width, height |-> size.height, options |-> options,
      perturbation |-> perturbation]

\* The images makeUnique is handed (they passed the border check, so both
\* sides are 10 or more): square, exactly 1.2 times taller than wide, just
\* above that, and wider than tall; with either rotate flag.
ProcessorInputs ==
  [width : {10, 20}, height : {10, 12, 13, 24, 25}, rotate : BOOLEAN]

InitProcessor ==
  /\ PipelineInit /\ SourcesInit /\ CrashInit /\ KeysInit /\ BrowserInit
  /\ RaceInit /\ ValidatorInit /\ FactoryInit /\ NamesInit
  /\ muInput \in ProcessorInputs
  /\ muOut = <<>>

\* makeUnique resolves.
MuMakeUnique ==
  /\ muOut = <<>>
  /\ \E perturbation \in Perturbations, ignoresPrevious \in BOOLEAN :
       muOut' = <<makeUnique(muInput, perturbation, ignoresPrevious)>>
  /\ UNCHANGED <<muInput, exceptProcessor>>

\* makeUnique is called with another image and verdict.
MuNextImage ==
  /\ muOut # <<>>
  /\ muInput' \in ProcessorInputs
  /\ muOut' = <<>>
  /\ UNCHANGED exceptProcessor

NextProcessor ==
  \/ MuMakeUnique
  \/ MuNextImage

SpecProcessor == InitProcessor /\ [][NextProcessor]_vars

\* ------------------------------- GoogleShoppingSource and BrowserFactory
\* searchImage is called: withLock awaits mutex.acquire(), which queues
\* the caller behind those already waiting.
GsCall(c) ==
  /\ gsPc[c] = "out"
  /\ bfInitCalls < MaxInitCalls
  /\ gsPc' = [gsPc EXCEPT ![c] = "acquire"]
  /\ gsQueue' = Append(gsQueue, c)
  /\ UNCHANGED <<gsHolder, bfInitialized, bfInitCalls, exceptFactory>>

\* The mutex is granted to the caller at the head of the queue: fn starts
\* and BrowserFactory.getBrowserPage runs up to its await of
\* stagehand.init(), or, with initialized set, returns the page.
GsAcquired(c) ==
  /\ gsPc[c] = "acquire"
  /\ gsHolder = 0
  /\ gsQueue # <<>> /\ Head(gsQueue) = c
  /\ gsHolder' = c
  /\ gsQueue' = Tail(gsQueue)
  /\ IF ~bfInitialized
     THEN /\ bfInitCalls' = bfInitCalls + 1
          /\ gsPc' = [gsPc EXCEPT ![c] = "awaitInit"]
     ELSE /\ gsPc' = [gsPc EXCEPT ![c] = "pageOps"]
          /\ UNCHANGED bfInitCalls
  /\ UNCHANGED <<bfInitialized, exceptFactory>>

\* stagehand.init() settles: initialized is set and the page returned, or
\* the rejection leaves getBrowserPage and searchImage (the await is
\* outside the try of searchImage) and the finally of withLock releases.
GsInitSettles(c) ==
  /\ gsPc[c] = "awaitInit"
  /\ \/ /\ bfInitialized' = TRUE
        /\ gsPc' = [gsPc EXCEPT ![c] = "pageOps"]
        /\ UNCHANGED gsHolder
     \/ /\ gsPc' = [gsPc EXCEPT ![c] = "out"]
        /\ gsHolder' = 0
        /\ UNCHANGED bfInitialized
  /\ UNCHANGED <<gsQueue, bfInitCalls, exceptFactory>>

\* The page operations end (in the URLs, or in [] after an error the catch
\* answered) and the finally of withLock releases the mutex.
GsPageOps(c) ==
  /\ gsPc[c] = "pageOps"
  /\ gsPc' = [gsPc EXCEPT ![c] = "out"]
  /\ gsHolder' = 0
  /\ UNCHANGED <<gsQueue, bfInitialized, bfInitCalls, exceptFactory>>

NextFactory ==
  \/ \E c \in Callers : GsCall(c)
  \/ \E c \in Callers : GsAcquired(c)
  \/ \E c \in Callers : GsInitSettles(c)
  \/ \E c \in Callers : GsPageOps(c)

SpecFactory == Init /\ [][NextFactory]_vars

\* ------------------------------------------- the file names CacheService
\* writes
\* Characters the generators treat differently: a letter of either case,
\* white space, the path separator, the dot and the hyphen.
NameAlphabet == {"a", "B", " ", "/", ".", "-"}

\* Whole strings that aim at a file outside the directory or at the index.
IndexJson == <<"i","n","d","e","x",".","j","s","o","n">>
HostileStrings ==
  {<<".",".","/",".",".","/","x">>, <<".",".","\\","x">>, IndexJson,
   <<"a"," "," ","_","7">>}

\* The strings a verdict, a request or a caller can carry.
NameStrings ==
  UNION {[1..n -> NameAlphabet] : n \in 0..MaxNameLen} \cup HostileStrings

\* The stage tags: those downloadAndValidate passes, and any other string.
StageTags ==
  NameStrings \cup {StageRawDownload, StageGeminiApprovedRaw,
                    StageGeminiRejected, StageGeminiBypassedInput}

\* The arguments a call of the two methods can have.
NameCalls ==
  ({"saveImage"} \X (NameStrings \X NameStrings))
  \cup ({"saveIntermediateImage"} \X (NameStrings \X StageTags))

\* The call is any of them.
InitNames ==
  /\ PipelineInit /\ SourcesInit /\ CrashInit /\ KeysInit /\ BrowserInit
  /\ RaceInit /\ ValidatorInit /\ ProcessorInit /\ FactoryInit
  /\ \E call \in NameCalls : fnCall = call[1] /\ fnArgs = call[2]
  /\ fnName = <<>>

\* saveImage writes path.join(cacheDir, generateSeoFilename(geminiResult)).
FnSaveImage ==
  /\ fnCall = "saveImage" /\ fnName = <<>>
  /\ fnName' = <<generateSeoFilename([brand |-> fnArgs[1], model |-> fnArgs[2]])>>
  /\ UNCHANGED <<fnCall, fnArgs, exceptNames>>

\* saveIntermediateImage writes path.join(cacheDir,
\* generateIntermediateFilename(normalizeKey(modelInput), stage)).
FnSaveIntermediateImage ==
  /\ fnCall = "saveIntermediateImage" /\ fnName = <<>>
  /\ fnName' = <<generateIntermediateFilename(normalizeKey(fnArgs[1]), fnArgs[2])>>
  /\ UNCHANGED <<fnCall, fnArgs, exceptNames>>

NextNames ==
  \/ FnSaveImage
  \/ FnSaveIntermediateImage

SpecNames == InitNames /\ [][NextNames]_vars

\* ------------------------------------------------- POST /api/shoe-image
\* `${req.protocol}://${req.get('host')}` of the request.
HostPrefix == <<"http://host">>

\* getFullUrl of the handler: null for a path that is not truthy.
getFullUrl(localPath) ==
  IF localPath \in {Null, Undefined, <<>>} THEN Null
  ELSE HostPrefix \o localPath

\* The JSON the handler answers a getShoeImage result with.
Respond(res) ==
  LET diagnostics ==
        [source |-> res.source,
         rawDownloadedPath |-> getFullUrl(res.rawDownloadedPath),
         geminiInputPath |-> getFullUrl(res.geminiInputPath),
         geminiApprovedRawPath |-> getFullUrl(res.geminiApprovedRawPath),
         geminiRejectedPath |-> getFullUrl(res.geminiRejectedPath),
         geminiValidationStatus |-> res.geminiValidationStatus,
         originalImageUrl |-> res.originalImageUrl]
  IN
  IF res.success /\ res.finalProcessedPath \notin {Null, Undefined, <<>>}
  THEN [status |-> 200, success |-> TRUE,
        finalProcessedPath |-> getFullUrl(res.finalProcessedPath),
        error |-> NoError, diagnostics |-> diagnostics]
  ELSE [status |-> 404, success |-> FALSE, finalProcessedPath |-> Undefined,
        error |-> res.error, diagnostics |-> diagnostics]

\* ================================================================= claims
\* A step of StartRequest: the only step there is when no request runs.
RequestStarts == pc \in {"idle", "done"} /\ pc' \in {"search", "done"}

\* The index has an entry for the query's key and the entry's file exists.
LiveEntry(index, dir, q) ==
  normalizeKey(q) \in DOMAIN index /\ index[normalizeKey(q)] \in dir

\* C1: a request that finds a live cache entry returns in the step that
\* starts it, with success, source 'cache' and the cached path, having called
\* no source, download, validator or normalizer and having written nothing.
C1_CacheHitFastPath ==
  [][(RequestStarts /\ LiveEntry(cacheIndex, files, model'))
       => /\ pc' = "done"
          /\ result'.success
          /\ result'.source = "cache"
          /\ result'.finalProcessedPath
               = ImagesPrefix \o cacheIndex[normalizeKey(model')]
          /\ calls' = NoCalls
          /\ UNCHANGED cacheVars]_vars

C1_Witness ==
  pc = "done" /\ result.success /\ result.source = "cache"
  /\ LiveEntry(cacheIndex, files, model)

\* C2: after a request returned success through the full pipeline with
\* path p, the next request, for a query with the same normalized key,
\* returns p with source 'cache' and searches and downloads nothing.
C2_Idempotence ==
  [][(RequestStarts /\ pc = "done" /\ result.success /\ result.source # "cache"
        /\ normalizeKey(model') = normalizeKey(model))
       => /\ pc' = "done"
          /\ result'.success
          /\ result'.source = "cache"
          /\ result'.finalProcessedPath = result.finalProcessedPath
          /\ ~calls'.search /\ ~calls'.download]_vars

\* C3: when a candidate has been stored, the index maps the normalized
\* input query to the stored file, and index.json holds the same index.
C3_StoreKeyedByQuery ==
  (pc = "returned" /\ cand.stored)
    => /\ normalizeKey(model) \in DOMAIN cacheIndex
       /\ ImagesPrefix \o cacheIndex[normalizeKey(model)]
            = scrapingResult.finalProcessedPath
       /\ indexFile = cacheIndex

\* C4: a semantic call that yields a verdict (usable = true) ends the
\* semantic stage as approved and goes on to normalization, and a candidate
\* stored without a processing fault returns success with status 'approved'.
C4_ApprovalLeadsToSuccess ==
  [][/\ (pc = "semantic" /\ cand'.semanticCalls = cand.semanticCalls + 1
           /\ cand'.lastSemantic = "usable")
          => /\ pc' = "process"
             /\ scrapingResult'.geminiValidationStatus = "approved"
     /\ (pc = "process" /\ pc' = "returned"
           /\ cand'.processingFaults = cand.processingFaults)
          => /\ scrapingResult'.success
             /\ scrapingResult'.geminiValidationStatus = "approved"
             /\ cand'.stored]_vars

\* C5: a semantic call that times out or faults is not recorded as a
\* rejection, and before the last attempt it is retried after the backoff.
C5_CallFailureRetried ==
  [][(pc = "semantic" /\ cand'.semanticCalls = cand.semanticCalls + 1
        /\ cand'.lastSemantic = "fault")
       => /\ scrapingResult'.geminiValidationStatus # "rejected"
          /\ geminiAttempt < GeminiMaxRetries
               => /\ pc' = "semantic"
                  /\ geminiAttempt' = geminiAttempt + 1
                  /\ cand'.geminiDelays
                       = Append(cand.geminiDelays, geminiCurrentDelay)]_vars

\* C6: once normalization or the cache write has thrown for a candidate,
\* the call for that candidate has returned failure: no wait, no further
\* download and no further validation follow.
C6_ProcessingFaultNotRetried ==
  cand.processingFaults > 0
    => pc \in {"returned", "done"} /\ ~scrapingResult.success

\* C7: with bypass on, a candidate all of whose semantic attempts ended in
\* call failures, and whose normalization and cache write did not fault,
\* is stored and returns success with status 'bypassed'.
C7_BypassEnabled ==
  (bypassGeminiOnFailure /\ pc = "returned" /\ cand.semanticCalls > 0
     /\ cand.semanticFaults = cand.semanticCalls /\ cand.processingFaults = 0)
    => /\ scrapingResult.success
       /\ scrapingResult.geminiValidationStatus = "bypassed"
       /\ cand.stored

\* C8: with bypass off, a request all of whose semantic attempts ended in
\* call failures returns success = false with an error, has not called
\* saveImage, and leaves the index in memory and index.json as they were.
C8_BypassDisabled ==
  (~bypassGeminiOnFailure /\ pc = "done" /\ calls.semantic
     /\ ~calls.semanticAnswered)
    => /\ ~result.success
       /\ result.error # NoError
       /\ result.finalProcessedPath = Undefined
       /\ ~calls.saveImage
       /\ cacheIndex = indexAtStart[1]
       /\ indexFile = indexAtStart[2]

C8_Witness ==
  /\ ~bypassGeminiOnFailure /\ pc = "done"
  /\ calls.semantic /\ ~calls.semanticAnswered
  /\ urlIdx = 2 /\ ~result.success

\* C9: bytes that fail the structural validator end the call for their
\* candidate at once (no semantic call, no further download, no index
\* write, no success), and the orchestrator then takes the next candidate,
\* or returns not-found after the last one.
C9_StructuralRejectionTerminal ==
  [][/\ (pc = "structural" /\ ~ValidatorValidateImage(imageBuffer))
          => /\ pc' = "returned"
             /\ cand'.structuralRejected
             /\ cand'.semanticCalls = cand.semanticCalls
             /\ cand'.downloads = cand.downloads
             /\ ~scrapingResult'.success
             /\ calls'.semantic = calls.semantic
             /\ UNCHANGED <<cacheIndex, indexFile>>
     /\ (pc = "returned" /\ cand.structuralRejected)
          => /\ UNCHANGED <<cacheIndex, indexFile, calls>>
             /\ IF urlIdx < Len(urls)
                THEN pc' = "download" /\ urlIdx' = urlIdx + 1
                ELSE pc' = "done" /\ ~result'.success
     /\ cand.structuralRejected => pc \in {"returned", "done"}]_vars

C9_Witness ==
  /\ pc = "download" /\ urlIdx = 2 /\ cand.downloads = 0
  /\ calls.structural /\ ~calls.semantic

RECURSIVE Pow2(_)
Pow2(n) == IF n = 0 THEN 1 ELSE 2 * Pow2(n - 1)

\* C10: the wait before retry i of a candidate's download is
\* downloadInitialDelayMs * 2^(i-1); a candidate is downloaded at most
\* downloadMaxRetries times; and a candidate whose download failed fewer
\* times than that, then succeeded, and whose later stages passed, returns
\* success.
C10_DownloadRetryBackoff ==
  /\ \A i \in DOMAIN cand.delays :
       cand.delays[i] = DownloadInitialDelayMs * Pow2(i - 1)
  /\ cand.downloads <= DownloadMaxRetries
  /\ pc = "backoff"
       => attempt < DownloadMaxRetries /\ Len(cand.delays) = attempt
  /\ pc = "download" => Len(cand.delays) = attempt - 1
  /\ (pc = "returned" /\ cand.downloadFailures < DownloadMaxRetries
        /\ cand.downloads > cand.downloadFailures
        /\ ~cand.structuralRejected
        /\ scrapingResult.geminiValidationStatus = "approved"
        /\ cand.processingFaults = 0)
       => scrapingResult.success /\ cand.stored

C10_Witness ==
  /\ pc = "returned" /\ scrapingResult.success
  /\ cand.downloadFailures = 2 /\ cand.downloads = 3
  /\ cand.delays = <<DownloadInitialDelayMs, 2 * DownloadInitialDelayMs>>

\* A step inside downloadAndValidate, for the candidate at urlIdx.
InCandidate == pc \in {"download", "structural", "semantic", "process", "backoff"}

\* C11: no step taken for one candidate ends the request or leaves the
\* candidate list: it stays with the candidate or makes downloadAndValidate
\* return; after a failed candidate getShoeImage begins the next one, and
\* it returns not-found only after the last candidate of the list.
C11_FaultIsolationPerCandidate ==
  [][/\ InCandidate
          => /\ pc' \in {"download", "structural", "semantic", "process",
                          "backoff", "returned"}
             /\ UNCHANGED <<urlIdx, urls, result>>
     /\ (pc = "returned" /\ ~scrapingResult.success /\ urlIdx < Len(urls))
          => /\ pc' = "download"
             /\ urlIdx' = urlIdx + 1
             /\ cand' = NewCand
     /\ (pc = "returned" /\ pc' = "done" /\ ~result'.success)
          => urlIdx = Len(urls)
     /\ (pc = "returned" /\ scrapingResult.success)
          => pc' = "done" /\ result' = scrapingResult]_vars

\* The second candidate succeeded after the first one failed.
C11_Witness ==
  /\ pc = "done" /\ result.success
  /\ urlIdx = 2 /\ result.originalImageUrl = UrlList[2]

\* C12: when searchImage of a source rejects, or resolves with nothing, the
\* request goes on: the fault is on the log, the next source of the list is
\* queried, its candidates are attempted, and not-found is returned only
\* after the last source.
C12_SourceFaultAdvances ==
  [][/\ (msPc = "search" /\ msSrc < Len(Sources) /\ msPc' # "candidate")
          => /\ msPc' = "search"
             /\ msSrc' = msSrc + 1
             /\ Len(msLog') = Len(msLog) + 1
             /\ msLog'[Len(msLog')][1] = Sources[msSrc]
     /\ (msPc = "search" /\ msPc' = "candidate")
          => msUrlIdx' = 1 /\ msUrls' # <<>> /\ msSrc' = msSrc
     /\ (msPc \in {"search", "candidate"} /\ msPc' = "done" /\ ~msResult'.success)
          => /\ msSrc = Len(Sources)
             /\ Len(msLog') = Len(Sources)
             /\ \A i \in DOMAIN Sources : msLog'[i][1] = Sources[i]]_vars

\* The first source threw and a candidate of the second one succeeded.
C12_Witness ==
  /\ msPc = "done" /\ msResult.success
  /\ msResult.source = "search-engine"
  /\ msLog[1] = <<"google-shopping", "threw">>

\* C13: a request that searched, found candidates and ended without any
\* of them passing the structural validator returns the not-found result,
\* and the index in memory and index.json are what they were when the
\* request began.
C13_TerminalExhaustion ==
  (pc = "done" /\ calls.search /\ urls # <<>> /\ ~calls.semantic)
    => /\ ~result.success
       /\ result = NotFoundResult
       /\ urlIdx = Len(urls)
       /\ cacheIndex = indexAtStart[1]
       /\ indexFile = indexAtStart[2]

\* Both candidates were downloaded at the first attempt and rejected by the
\* structural validator, in a request that began with a non-empty index.
C13_Witness ==
  /\ pc = "done" /\ Len(urls) = 2 /\ urlIdx = 2
  /\ calls.structural /\ ~calls.semantic
  /\ cand.structuralRejected /\ cand.downloadFailures = 0
  /\ indexAtStart[1] # EmptyMap

\* C14: when getShoeImage has returned a failure, the index lookup
\* consults (the Map in memory) is what it was when the request began.
C14_IndexUnchangedOnFailure ==
  (pc = "done" /\ ~result.success) => cacheIndex = indexAtStart[1]

\* C15: a result getShoeImage returned has exactly one of final path and
\* error: a success has a path and no error, a failure an error and no path.
C15_ExactlyOneOfPathAndError ==
  pc = "done"
    => IF result.success
       THEN result.finalProcessedPath \notin {Undefined, Null} /\ result.error = NoError
       ELSE result.finalProcessedPath \in {Undefined, Null} /\ result.error # NoError

\* The index has an entry for the query's key whose file is gone.
StaleEntry(index, dir, q) ==
  normalizeKey(q) \in DOMAIN index /\ index[normalizeKey(q)] \notin dir

\* C16: getCachedImage yields a path exactly when the index has an entry
\* under the normalized key and the entry's file exists; with an entry whose
\* file is missing it yields null, and the request neither fails nor
\* returns: it goes on to the search with nothing changed in the cache.
C16_LookupVerifiesExistence ==
  [][RequestStarts
       => /\ (getCachedImage(cacheIndex, files, model') # Null)
               <=> LiveEntry(cacheIndex, files, model')
          /\ pc' = "done" => LiveEntry(cacheIndex, files, model')
          /\ StaleEntry(cacheIndex, files, model')
               => /\ getCachedImage(cacheIndex, files, model') = Null
                  /\ pc' = "search"
                  /\ result' = BlankResult
                  /\ UNCHANGED cacheVars]_vars

\* A request whose key has an entry without a file has got as far as the
\* structural stage of a candidate.
C16_Witness ==
  /\ pc = "structural"
  /\ StaleEntry(cacheIndex, files, model)

\* C17: whenever the process stopped inside saveImage and was started
\* again, the service is up with the index of index.json, every entry of
\* index.json references a file that exists, and every path a lookup
\* returned is the path of a file that exists.
C17_CrashConsistency ==
  /\ svPc # "down"
  /\ ~indexTorn
  /\ \A k \in DOMAIN indexFile : indexFile[k] \in files
  /\ svLookup # Null => \E f \in files : svLookup = ImagesPrefix \o f

\* Lower case, and every maximal run of characters outside [a-z0-9]
\* replaced by one separator.
RECURSIVE CollapseRuns(_)
CollapseRuns(s) ==
  IF s = <<>> THEN <<>>
  ELSE IF IsLowerAlnum(toLowerChar(Head(s)))
       THEN <<toLowerChar(Head(s))>> \o CollapseRuns(Tail(s))
       ELSE IF Tail(s) # <<>> /\ ~IsLowerAlnum(toLowerChar(Head(Tail(s))))
            THEN CollapseRuns(Tail(s))
            ELSE <<"_">> \o CollapseRuns(Tail(s))

\* C18: the key normalizeKey returns is the query in lower case with each
\* maximal run of non-alphanumeric characters replaced by one separator,
\* so two queries that agree up to letter case and up to the length and
\* kind of those runs get the same key.
C18_KeyNormalization ==
  /\ nkKey # Undefined => nkKey = CollapseRuns(nkQuery)
  /\ (nkKey # Undefined /\ nkPrevKey # Undefined
        /\ CollapseRuns(nkQuery) = CollapseRuns(nkPrevQuery))
       => nkKey = nkPrevKey

\* C19: an initialization is started only when there is no session and
\* none is in flight, so there is never more than one initialization in
\* flight, never more than one session, and never both; a caller that
\* awaits an initialization awaits the one held by `initializing`.
C19_SingleFlightInitialization ==
  [][/\ brInits' > brInits
          => /\ brInits = 0 /\ brSessions = 0
             /\ ~stagehand /\ initializing = "null"
             /\ initializing' = "pending"
     /\ brInits' + brSessions' <= 1
     /\ \A c \in Callers : brPc'[c] = "awaitInit" => initializing' # "null"]_vars

\* An initialization is in flight, awaited by one caller, while another
\* caller has arrived.
C19_Witness ==
  /\ initializing = "pending" /\ brInits = 1
  /\ \E c, d \in Callers :
       c # d /\ brPc[c] = "awaitInit" /\ brPc[d] = "awaitPrev"

\* The callers inside the function searchImage passes to withLock.
InBody == {c \in Callers : brPc[c] \in {"awaitInit", "pageOps", "closing"}}

\* C20: at most one caller is inside the body of searchImage (session
\* acquisition, page operations, teardown after an error), and a caller
\* enters it only when no other caller is inside.
C20_MutualExclusion ==
  [][/\ Cardinality(InBody') <= 1
     /\ \A c \in Callers :
          (c \notin InBody /\ c \in InBody') => InBody = {}]_vars

\* One caller is at its page operations, a second awaits the first one's
\* promise and a third awaits the second one's.
C20_Witness ==
  \E c, d, e \in Callers :
    /\ brPc[c] = "pageOps"
    /\ brPc[d] = "awaitPrev" /\ brPrev[d] = c
    /\ brPc[e] = "awaitPrev" /\ brPrev[e] = d

\* C21: a searchImage call that meets an error it cannot recover from (an
\* initialization that failed included) returns the empty list with the
\* session and the initialization promise both cleared, and the next call
\* to pass the gate then starts an initialization of its own instead of
\* awaiting or using what the failed call left.
C21_SelfHealingSession ==
  [][\A c \in Callers :
       /\ ( /\ \/ brPc[c] = "closing"
               \/ brPc[c] = "awaitInit" /\ initializing = "rejected"
            /\ brPc'[c] # brPc[c] )
          => /\ brPc'[c] = "out"
             /\ brResult'[c] = "[]"
             /\ ~stagehand'
             /\ initializing' = "null"
       /\ (brPc[c] = "awaitPrev" /\ brPc'[c] # "awaitPrev" /\ ~stagehand)
          => /\ initializing = "null"
             /\ initializing' = "pending"
             /\ brInits' = brInits + 1
             /\ brPc'[c] = "awaitInit"]_vars

\* A call has ended in the catch and a later call is initializing afresh.
C21_Witness ==
  \E c, d \in Callers :
    /\ c # d
    /\ brPc[c] = "out" /\ brResult[c] = "[]"
    /\ brPc[d] = "awaitInit" /\ initializing = "pending" /\ brInits = 1
    /\ ~stagehand

\* C22: a caller that was waiting for the gate when another caller's
\* error tore the session down gets the empty list for that call.
C22_WaitersAtTeardownGetEmpty ==
  \A c \in brTornDown : brPc[c] = "out" => brResult[c] = "[]"

\* The concurrent calls that ran the pipeline to a stored image.
RanPipeline(r) ==
  /\ rcPc[r] = "done"
  /\ rcResult[r][1].success
  /\ rcResult[r][1].source # "cache"

\* C23: when two concurrent calls for one uncached model have both run the
\* pipeline to the end, the index entry for that model's key names the
\* file the later saveImage wrote, and the file exists.
C23_LastStoreWins ==
  \A r1, r2 \in Requests :
    ( /\ r1 # r2
      /\ RanPipeline(r1) /\ RanPipeline(r2)
      /\ rcModel[r1] = rcModel[r2] )
    => LET key == normalizeKey(rcModel[r1]) IN
       /\ key \in DOMAIN cacheIndex
       /\ cacheIndex[key] = rcSaves[Len(rcSaves)].filename
       /\ cacheIndex[key] \in files

\* A getShoeImage call that has not returned yet.
Running == pc \notin {"idle", "done"}

\* C24: with a finite candidate list and awaited calls that all settle,
\* every getShoeImage call returns, successful or failed, and no retry loop
\* makes more attempts than its configured maximum, whatever the maximum
\* is, 0 included.
C24_Termination ==
  /\ [](/\ cand.downloads <= downloadMaxRetries
        /\ cand.semanticCalls <= cand.downloads * geminiMaxRetries
        /\ pc \in {"download", "backoff"} => attempt <= downloadMaxRetries
        /\ pc = "semantic" => geminiAttempt <= geminiMaxRetries
        /\ \A m, f \in 0..MaxPageRetries :
             retryPageOperation(m, f).calls <= m)
  /\ (Running ~> pc = "done")

\* A call configured with 0 download attempts has returned its failure
\* with candidates at hand, and one configured with 0 semantic attempts
\* has done so after a download.
C24_Witness ==
  /\ pc = "done"
  /\ ~result.success
  /\ calls.search
  /\ Len(urls) > 0
  /\ \/ downloadMaxRetries = 0 /\ ~calls.download
     \/ geminiMaxRetries = 0 /\ calls.structural /\ ~calls.semantic

\* The members of a ScrapingResult that hold paths of debug artifacts.
DebugPaths(sr) ==
  {sr.rawDownloadedPath, sr.geminiInputPath, sr.geminiApprovedRawPath,
   sr.geminiRejectedPath}

\* C25: the steps that save a debug artifact (after the download and after
\* the semantic verdict) never change the index in memory or on disk; when
\* the write fails the path recorded is null and no file appears; and the
\* step goes on exactly as the download and the verdict dictate, with no
\* exception of the write reaching the retry loop: bytes delivered lead to
\* the structural check, a verdict that passed leads to makeUnique, any
\* other verdict ends the candidate with no retry.
C25_DebugArtifactsBestEffort ==
  [][(pc \in {"download", "semantic"})
       => /\ UNCHANGED <<cacheIndex, indexFile>>
          /\ files \subseteq files'
          /\ \A f \in files' \ files :
               \A k \in DOMAIN cacheIndex' : cacheIndex'[k] # f
          /\ ~debugWritable
               => /\ files' = files
                  /\ DebugPaths(scrapingResult') \subseteq {Null, Undefined}
          /\ (pc = "download" /\ cand'.downloadFailures = cand.downloadFailures)
               => pc' = "structural" /\ imageBuffer' \in Images
          /\ pc = "semantic"
               => /\ pc' \in {"process", "returned", "semantic"}
                  /\ attempt' = attempt
                  /\ cand'.delays = cand.delays
                  /\ pc' = "process" <=> actualGeminiResult' # <<>>]_vars

\* A request whose debug writes all failed has stored its final image.
C25_Witness ==
  /\ pc = "done"
  /\ ~debugWritable
  /\ result.success
  /\ result.source # "cache"
  /\ DebugPaths(result) \subseteq {Null, Undefined}
  /\ Null \in DebugPaths(result)

\* The colour of a pixel: a greyscale sample stands for R, G and B alike.
Colour(image, x, y) ==
  IF image.channels >= 3
  THEN <<SampleAt(image, x, y, 0), SampleAt(image, x, y, 1), SampleAt(image, x, y, 2)>>
  ELSE <<SampleAt(image, x, y, 0), SampleAt(image, x, y, 0), SampleAt(image, x, y, 0)>>

\* The pixels of a region whose R, G and B are all above 240.
WhitePixels(image, region) ==
  Cardinality({<<x, y>> \in (region.left..(region.left + region.width - 1))
                            \X (region.top..(region.top + region.height - 1)) :
                 \A ch \in 1..3 : Colour(image, x, y)[ch] > 240})

\* The reference verdict: decodable size and channels, a border of
\* thickness t >= 1, and more than 95% of the pixels of the four border
\* strips white.
ReferenceVerdict(image) ==
  LET t == Min(5, Min(image.width \div 10, image.height \div 10))
      rs == Regions(image, t)
      sampled == 2 * image.width * t + 2 * t * image.height
      white == WhitePixels(image, rs[1]) + WhitePixels(image, rs[2])
               + WhitePixels(image, rs[3]) + WhitePixels(image, rs[4])
  IN /\ image.width > 0 /\ image.height > 0 /\ image.channels > 0
     /\ t >= 1
     /\ white * 100 > 95 * sampled

Includes(hay, needle) ==
  \E i \in 0..(Len(hay) - Len(needle)) :
    SubSeq(hay, i + 1, i + Len(needle)) = needle

\* C28: the metadata embedded in every stored image has the fixed
\* copyright and artist strings, a keyword comment that is not empty, and a
\* description that contains the model string of the request that produced
\* the image.
C28_MetadataNamesRequestModel ==
  \A i \in DOMAIN rcSaves :
    LET exif == rcSaves[i].exif IN
    /\ exif.Copyright = <<"BareTread.com">>
    /\ exif.Artist = <<"BareTread">>
    /\ exif.UserComment # <<>>
    /\ Includes(exif.ImageDescription, rcModel[rcSaves[i].by])

\* C29: a semantic attempt that ends in an explicit rejection (the vision
\* model answered usable: false) ends the candidate: the call returns with
\* status 'rejected' and no success, no further attempt is scheduled, the
\* index is not touched and no final image is written, with bypass on
\* failure enabled or not.
C29_RejectionIsFinal ==
  [][( /\ pc = "semantic"
       /\ cand'.semanticCalls = cand.semanticCalls + 1
       /\ cand'.lastSemantic = "unusable" )
       => /\ pc' = "returned"
          /\ scrapingResult'.geminiValidationStatus = "rejected"
          /\ ~scrapingResult'.success
          /\ scrapingResult'.finalProcessedPath = Undefined
          /\ geminiAttempt' = 0
          /\ calls'.saveImage = calls.saveImage
          /\ UNCHANGED <<cacheIndex, indexFile>>
          /\ \A f \in files' \ files :
               f = generateIntermediateFilename(normalizeKey(model),
                                                StageGeminiRejected)]_vars

\* A candidate has been rejected by the vision model with bypass on failure
\* enabled.
C29_Witness ==
  /\ bypassGeminiOnFailure
  /\ pc = "returned"
  /\ cand.lastSemantic = "unusable"
  /\ cand.semanticCalls = 1
  /\ scrapingResult.geminiValidationStatus = "rejected"
  /\ ~scrapingResult.success

\* C30: when two requests whose model strings normalise to different keys
\* have both run the pipeline to a stored image with the same verdict brand
\* and model, the index has an entry under each request's key and the two
\* entries name two different files, both present.
C30_SeparateEntriesPerPhrasing ==
  \A r1, r2 \in Requests :
    ( /\ RanPipeline(r1) /\ RanPipeline(r2)
      /\ normalizeKey(rcModel[r1]) # normalizeKey(rcModel[r2])
      /\ rcVerdict[r1][1].brand = rcVerdict[r2][1].brand
      /\ rcVerdict[r1][1].model = rcVerdict[r2][1].model )
    => LET k1 == normalizeKey(rcModel[r1])
           k2 == normalizeKey(rcModel[r2])
       IN /\ k1 \in DOMAIN cacheIndex /\ k2 \in DOMAIN cacheIndex
          /\ cacheIndex[k1] # cacheIndex[k2]
          /\ cacheIndex[k1] \in files /\ cacheIndex[k2] \in files

\* C31: when getShoeImage has returned a failure after a download of this
\* request delivered bytes, the result has a validation status and the
\* artifact paths of the candidate attempted last, and the 404 answer
\* reports them.
C31_FailureKeepsDiagnostics ==
  (pc = "done" /\ ~result.success /\ calls.structural)
    => /\ result.geminiValidationStatus # "<undefined>"
       /\ result.geminiValidationStatus = scrapingResult.geminiValidationStatus
       /\ DebugPaths(result) = DebugPaths(scrapingResult)
       /\ Respond(result).status = 404
       /\ Respond(result).diagnostics = Respond(scrapingResult).diagnostics

\* C32: candidates are attempted one after the other in the order of the
\* list, starting with the first; the sources are queried in the order of
\* this.sources, each at most once per request, and a source is left for
\* the next one only when its search gave no candidate or its last
\* candidate has failed; the step in which a candidate succeeds ends the
\* request with that candidate, and nothing is downloaded, validated or
\* queried after it.
C32_CandidatesInOrder ==
  [][\* the orchestrator over several sources
     /\ (msPc = "candidate" /\ msUrlIdx' # msUrlIdx)
          => \/ /\ msUrlIdx < Len(msUrls) /\ msUrlIdx' = msUrlIdx + 1
                /\ msPc' = "candidate" /\ msSrc' = msSrc /\ msUrls' = msUrls
             \/ /\ msUrlIdx = Len(msUrls) /\ msUrlIdx' = 0
                /\ msPc' = "search" /\ msSrc' = msSrc + 1
     /\ (msPc = "search" /\ msPc' = "candidate")
          => msUrlIdx' = 1 /\ msSrc' = msSrc /\ msUrls' # <<>>
     /\ (msPc \in {"search", "candidate"} /\ msSrc' # msSrc)
          => /\ msSrc' = msSrc + 1 /\ msPc' = "search"
             /\ msPc = "candidate" => msUrlIdx = Len(msUrls)
             /\ ~msResult'.success
     /\ (msPc = "candidate" /\ msResult'.success)
          => /\ msPc' = "done"
             /\ msResult'.imageUrl = msUrls[msUrlIdx]
             /\ msResult'.source = Sources[msSrc]
             /\ UNCHANGED <<msSrc, msUrls, msUrlIdx, msLog>>
     /\ msPc = "done" => msPc' \in {"search", "done"} /\ msLog' = <<>>
     /\ msLog' # msLog /\ msLog' # <<>>
          => msPc = "search" /\ Len(msLog') = msSrc
     /\ \A i \in DOMAIN msLog' : msLog'[i][1] = Sources[i]
     \* the orchestrator over one source
     /\ (pc \notin {"idle", "done"} /\ urlIdx' # urlIdx)
          => /\ \/ pc = "search" /\ urlIdx' = 1
                \/ /\ pc = "returned" /\ ~scrapingResult.success
                   /\ urlIdx < Len(urls) /\ urlIdx' = urlIdx + 1 /\ urls' = urls
             /\ pc' \in {"download", "returned"}
             /\ scrapingResult'.originalImageUrl = UrlList[urlIdx']
     /\ (pc = "returned" /\ scrapingResult.success)
          => pc' = "done" /\ result' = scrapingResult /\ UNCHANGED <<calls, cand, urlIdx>>
     /\ pc = "done" => pc' \in {"search", "done"} /\ calls' = NoCalls]_vars

\* Every candidate of the first source failed, then the second candidate
\* of the second source succeeded.
C32_Witness ==
  /\ msPc = "done" /\ msResult.success
  /\ msResult.source = "search-engine"
  /\ msUrlIdx = 2
  /\ msLog = << <<"google-shopping", "urls">>, <<"search-engine", "urls">> >>

\* The semantic calls the claim names: usable false, a response that does
\* not parse, a safety-filtered response.
NonApprovals == {call \in GeminiCalls : CallClass(call) \in {"unusable", "malformed"}}

\* C33: validateImage resolves with a verdict only for a response that
\* parses and has usable true; for usable false, an unparseable response
\* and a safety-filtered one it resolves with null and does not reject;
\* and the step of the pipeline after any of the three is one and the same:
\* the call for the candidate returns with status 'rejected', no success,
\* the rejection error and the rejected artifact, with no retry and the
\* index untouched, and the orchestrator takes the next candidate or, after
\* the last one, returns not-found.
C33_UniformNonApproval ==
  [][/\ \A img \in Images, call \in GeminiCalls :
          LET ret == GeminiValidateImage(img, model, call) IN
          /\ ret.value # <<>> => call.kind = "json" /\ call.json.usable
          /\ call \in NonApprovals => ret.value = <<>> /\ ~ret.threw
     /\ ( /\ pc = "semantic"
          /\ cand'.semanticCalls = cand.semanticCalls + 1
          /\ cand'.lastSemantic \in {"unusable", "malformed"} )
          => /\ pc' = "returned"
             /\ scrapingResult' =
                  [scrapingResult EXCEPT
                     !.geminiValidationStatus = "rejected",
                     !.geminiRejectedPath =
                        saveIntermediateImage(files, model, StageGeminiRejected,
                                              debugWritable).path,
                     !.error = IF @ # NoError THEN @
                               ELSE "LLM validation failed (Gemini rejected or failed and bypass off)"]
             /\ ~scrapingResult'.success
             /\ geminiAttempt' = 0 /\ attempt' = attempt
             /\ cand'.geminiDelays = cand.geminiDelays
             /\ UNCHANGED <<cacheIndex, indexFile>>
     /\ (pc = "returned" /\ cand.lastSemantic \in {"unusable", "malformed"})
          => IF urlIdx < Len(urls)
             THEN pc' = "download" /\ urlIdx' = urlIdx + 1
             ELSE pc' = "done" /\ ~result'.success]_vars

\* With bypass on failure enabled, the second candidate has been failed
\* after a response that was blocked or did not parse.
C33_Witness ==
  /\ bypassGeminiOnFailure
  /\ pc = "returned" /\ urlIdx = 2
  /\ cand.lastSemantic = "malformed"
  /\ cand.semanticCalls = 1
  /\ scrapingResult.geminiValidationStatus = "rejected"

\* A perturbation that leaves the size of an image alone: the flip, the
\* brightness scaling, and the small rotation when its angle is 0.
KeepsSize(perturbation) ==
  \A w, h \in {10, 20} :
    LET o == IF perturbation.type = 1
             THEN SharpRotate(NewSharp, perturbation.rotation, FALSE)
             ELSE NewSharp
    IN SharpSize(w, h, o) = [width |-> w, height |-> h]

\* C34: with a perturbation that leaves the size alone, the output of
\* makeUnique has the input's width and height swapped when the verdict
\* asked for a rotation or the image is more than 1.2 times taller than
\* wide, and the input's size otherwise; and a rotation the verdict asked
\* for is still set in the pipeline that produces the output, whatever the
\* perturbation.
C34_OrientationCorrection ==
  muOut # <<>>
    => LET o == muOut[1]
           rotated == muInput.rotate
                      \/ (~muInput.rotate /\ muInput.height * 10 > muInput.width * 12)
       IN /\ KeepsSize(o.perturbation)
               => IF rotated
                  THEN o.width = muInput.height /\ o.height = muInput.width
                  ELSE o.width = muInput.width /\ o.height = muInput.height
          /\ muInput.rotate => o.options.angle = Degrees90

\* The service is restarted over an emptied image directory (the cleanup
\* of the test): not an operation of the cache.
Restarted == files # {} /\ files' = {}

\* C35: no step of a request (lookup, debug artifact, store, any outcome
\* of a candidate or of the request) removes a key from the index in
\* memory or from index.json; a step that changes an entry is the store of
\* a verdict and changes the entry of that verdict's key only, to the
\* stored filename; and a lookup that finds an entry whose file is missing
\* reports a miss and leaves the index, index.json and the files as they
\* were.
C35_NoEviction ==
  [][~Restarted
       => /\ DOMAIN cacheIndex \subseteq DOMAIN cacheIndex'
          /\ DOMAIN indexFile \subseteq DOMAIN indexFile'
          /\ cacheIndex' # cacheIndex
               => /\ pc = "process"
                  /\ cacheIndex' =
                       MapSet(cacheIndex, normalizeKey(actualGeminiResult[1].model),
                              generateSeoFilename(actualGeminiResult[1]))
                  /\ \A k \in DOMAIN cacheIndex :
                       k # normalizeKey(actualGeminiResult[1].model)
                         => cacheIndex'[k] = cacheIndex[k]
          /\ indexFile' # indexFile => pc = "process" /\ indexFile' = cacheIndex'
          /\ (RequestStarts /\ StaleEntry(cacheIndex, files, model'))
               => /\ getCachedImage(cacheIndex, files, model') = Null
                  /\ pc' = "search"
                  /\ UNCHANGED cacheVars]_vars

\* A request found the entry of its key without its file, ran the
\* pipeline and stored under a key the index already had, with the other
\* entry of the index still there.
C35_Witness ==
  /\ pc = "done" /\ result.success /\ result.source # "cache"
  /\ normalizeKey(model) \in DOMAIN indexAtStart[1]
  /\ normalizeKey(result.model) \in DOMAIN indexAtStart[1]
  /\ Cardinality(DOMAIN cacheIndex) = 2
  /\ DOMAIN indexFile = DOMAIN cacheIndex

\* C36: during one downloadAndValidate call the semantic validator has
\* been called at most geminiMaxRetries times for the candidate.
C36_SemanticCallsBounded ==
  cand.semanticCalls <= geminiMaxRetries

\* A path member that holds a path.
Populated(path) == path \notin {Null, Undefined}

\* What C37 asks of one ScrapingResult.
StatusConsistent(sr) ==
  /\ (sr.success /\ sr.source # "cache")
       => sr.geminiValidationStatus \in {"approved", "bypassed"}
  /\ ~(Populated(sr.geminiApprovedRawPath) /\ Populated(sr.geminiRejectedPath))

\* C37: the result downloadAndValidate has returned, and the result
\* getShoeImage has returned, are consistent: a success not from the cache
\* has status 'approved' or 'bypassed', and the approved-raw path and the
\* rejected path are not both populated.
C37_StatusOutcomeConsistency ==
  /\ pc = "returned" => StatusConsistent(scrapingResult)
  /\ pc = "done" => StatusConsistent(result)

\* C38: stagehand.init() has been called at most once through
\* BrowserFactory.getBrowserPage.
C38_InitializesOnce ==
  bfInitCalls <= 1

\* C39: a caller's body begins only when that caller is the earliest of
\* the calls still in flight, so every call made before it has finished
\* its body and returned; no caller is inside the body while an earlier
\* call is in flight; and when a body is left, by the return of the URLs
\* or by the catch after an error, the caller's promise is resolved: it is
\* no longer the mutex and nobody is left awaiting it.
C39_FifoGate ==
  [][/\ \A c \in Callers :
          /\ (c \notin InBody /\ c \in InBody')
               => brOrder # <<>> /\ Head(brOrder) = c /\ brOrder' = brOrder
          /\ (c \in InBody /\ c \notin InBody')
               => /\ brPc'[c] = "out"
                  /\ mutex' # c
                  /\ \A d \in Callers : brPrev'[d] # c
                  /\ brOrder' = Tail(brOrder)
     /\ \A i, j \in DOMAIN brOrder' : i < j => brOrder'[j] \notin InBody'
     /\ \A c \in Callers :
          brPc'[c] # "out" <=> \E i \in DOMAIN brOrder' : brOrder'[i] = c]_vars

\* Of three overlapping calls, two have left their bodies, one by the
\* catch and one by the return, and the last one, which was waiting at the
\* gate meanwhile, is in its body.
C39_Witness ==
  \E c, d, e \in Callers :
    /\ brResult[c] = "[]" /\ brPc[c] = "out"
    /\ brResult[d] = "imageUrls" /\ brPc[d] = "out"
    /\ brPc[e] = "pageOps" /\ brOrder = <<e>>
    /\ e \in brTornDown

\* The name without its last four characters, and those four.
Stem(name) == SubSeq(name, 1, Len(name) - 4)
Suffix(name) == SubSeq(name, Len(name) - 3, Len(name))

\* path.join(cacheDir, name) is an entry of cacheDir itself: the name has
\* no separator and is not a dot name.
DirectlyInside(name) ==
  /\ name # <<>>
  /\ \A i \in DOMAIN name : name[i] \notin {"/", "\\"}
  /\ name \notin {<<".">>, <<".", ".">>}

\* Verdicts whose published names an intermediate name is compared with.
SampleVerdicts ==
  [brand : {<<>>, <<"a">>, <<"-">>}, model : {<<>>, <<"B">>, <<"-">>, <<"a", "-">>}]

\* C40: the name of the file saveImage writes is a stem over [a-z0-9-]
\* followed by .jpg; the name saveIntermediateImage writes is a key over
\* [a-z0-9_], a hyphen, a tag over [A-Z0-9-] and .jpg; either lies
\* directly inside the cache directory and is not index.json; and the name
\* of an intermediate artifact is not the name of a published one (a
\* published stem ends in "-side-view", an intermediate stem never ends in
\* a lower-case letter).
C40_WriteTargetsInsideCache ==
  fnName # <<>>
    => LET name == fnName[1] IN
       /\ Len(name) > 4 /\ Suffix(name) = JpgSuffix
       /\ DirectlyInside(name)
       /\ name # IndexJson
       /\ fnCall = "saveImage"
            => /\ \A i \in DOMAIN Stem(name) : IsSlugChar(Stem(name)[i])
               /\ Stem(name)[Len(Stem(name))] = "w"
       /\ fnCall = "saveIntermediateImage"
            => /\ LET key == normalizeKey(fnArgs[1])
                      tag == SubSeq(Stem(name), Len(key) + 2, Len(Stem(name)))
                  IN /\ SubSeq(name, 1, Len(key)) = key
                     /\ \A i \in DOMAIN key : IsLowerAlnum(key[i]) \/ key[i] = "_"
                     /\ Stem(name)[Len(key) + 1] = "-"
                     /\ \A i \in DOMAIN tag : IsStageChar(tag[i])
               /\ Stem(name)[Len(Stem(name))] \notin Range(LowerLetters)
               /\ \A v \in SampleVerdicts : generateSeoFilename(v) # name

\* An intermediate artifact has been written for a model string that
\* climbs out of the directory, with a stage tag that does the same.
C40_Witness ==
  /\ fnName # <<>>
  /\ fnCall = "saveIntermediateImage"
  /\ fnArgs = << <<".",".","/",".",".","/","x">>, <<".",".","/",".",".","/","x">> >>
  /\ fnName[1] = <<"_","_","_","_","_","_","x","-","X",".","j","p","g">>

====
